---- MODULE Spec2Model ----
(***************************************************************************)
(* Treasury job pipeline: the two writers of the canonical job store       *)
(* (scraper.py, email_parser.py) and the lead scoring engine               *)
(* (lead_scoring.py).                                                      *)
(*                                                                         *)
(* Text is a sequence of tokens (words separated by single blanks); the    *)
(* empty string is <<>>.  url and source are atomic strings.  What a       *)
(* token contains (substring tests, regular expressions, its length) is    *)
(* looked up in the lexicon below.                                         *)
(***************************************************************************)
EXTENDS Integers, Sequences, FiniteSets, TLC

VARIABLES
    store,           \* treasury_jobs.csv: whether it exists, and its rows
    web_pc,          \* scraper.py main(): position of the run
    web_jobs,        \* TreasuryWebScraper.jobs
    mail_pc,         \* email_parser.py main(): position of the run
    mail_jobs,       \* EmailJobParser.jobs
    header,          \* the canonical store: the columns of its header line
    today,           \* the calendar day (ingestion) / run day (scoring)
    prev_save,       \* history: writer, batch and result of the last save
    df,              \* LeadScoringEngine.df
    company_scores,  \* LeadScoringEngine.company_scores
    prospects,       \* prospects.csv: whether it exists, and its rows
    score_pc,        \* lead_scoring.py main(): position of the run
    analyzed_at,     \* history: the clock readings of this engine's analyze calls
    last_run,        \* history: what the previous scoring run loaded and found
    tier_in,         \* classify_prospect_tier: the scores to pass in
    tier_out,        \* classify_prospect_tier: the tiers returned so far
    clean_in,        \* _clean_company: the name to pass in
    clean_out,       \* _clean_company: what each writer's cleaner returned so far
    loop_in,         \* one loop over blocks: which loop, and the blocks it is given
    loop_pos,        \* one loop over blocks: how many blocks it has gone through
    web_read,        \* save_to_csv of the scraper: the file as it found it
    mail_read        \* save_to_csv of the email parser: the file as it found it

vars == <<store, header, web_pc, web_jobs, mail_pc, mail_jobs, today, prev_save,
          df, company_scores, prospects, score_pc, analyzed_at, last_run,
          tier_in, tier_out, clean_in, clean_out, loop_in, loop_pos,
          web_read, mail_read>>

ingest_vars == <<store, header, web_pc, web_jobs, mail_pc, mail_jobs, today, prev_save>>
score_vars == <<df, company_scores, prospects, score_pc, analyzed_at, last_run>>
tier_vars == <<tier_in, tier_out>>
clean_vars == <<clean_in, clean_out>>
loop_vars == <<loop_in, loop_pos>>
race_vars == <<web_read, mail_read>>

(***************************************************************************)
(* Bounds of the model.                                                    *)
(***************************************************************************)
MaxBatch == 2      \* records one run collects before it saves
MaxStore == 3      \* rows of the canonical store
MaxRuns == 2       \* analyze_all_companies calls on one engine
MaxJobs == 6       \* rows of a job store handed to the scoring engine
MaxNameLen == 3    \* tokens of a company name handed to _clean_company
MaxCleanings == 2  \* times a name is cleaned in a row
MaxBlocks == 3     \* cards of one result page, messages of one mailbox

(***************************************************************************)
(* Values.                                                                 *)
(***************************************************************************)
NoFile == [exists |-> FALSE, rows |-> <<>>]   \* os.path.exists(filename) is false
File(rows) == [exists |-> TRUE, rows |-> rows]  \* a CSV file and its rows
NaN == <<"<NaN>">>          \* a missing cell of a DataFrame (text columns)
NaNStr == "<NaN>"           \* a missing cell (url, source)
None == <<"<None>">>        \* Python None: no element found
Unknown == <<"Unknown">>    \* the sentinel

RECURSIVE SumLen(_, _)
RECURSIVE SeqToSet(_)

SeqToSet(s) == IF s = <<>> THEN {} ELSE {Head(s)} \cup SeqToSet(Tail(s))

Last(s) == s[Len(s)]
Front(s) == SubSeq(s, 1, Len(s) - 1)

(***************************************************************************)
(* The lexicon: for each token its length in characters, the lower-case    *)
(* keywords it contains as a substring (Python `kw in text.lower()`), and  *)
(* the keywords it matches as a whole word (regex \bkw\b).                 *)
(***************************************************************************)
Tok(n, s, w) == [len |-> n, sub |-> s, word |-> w]

\* the tokens the lexicon knows, each with its entry
Lexicon ==
    {<<"Interim", Tok(7, {"interim"}, {"interim"})>>,
     <<"Contract", Tok(8, {"contract"}, {"contract"})>>,
     <<"Freelance", Tok(9, {"freelance"}, {"freelance"})>>,
     <<"Director", Tok(8, {"director"}, {"director"})>>,
     <<"Head", Tok(4, {"head"}, {"head"})>>,
     <<"Senior", Tok(6, {"senior"}, {"senior"})>>,
     <<"Leader", Tok(6, {"lead"}, {"leader"})>>,
     <<"S/4HANA", Tok(7, {"s/4hana"}, {"s/4hana"})>>,
     <<"Kyriba", Tok(6, {"kyriba"}, {"kyriba"})>>,
     <<"(Kyriba)", Tok(8, {"kyriba"}, {"kyriba"})>>,
     <<"API", Tok(3, {"api"}, {"api"})>>,
     <<"Capital", Tok(7, {"api"}, {"capital"})>>,
     <<"Python", Tok(6, {"python"}, {"python"})>>,
     <<"SWIFT", Tok(5, {"swift"}, {"swift"})>>,
     <<"ESG", Tok(3, {"esg"}, {"esg"})>>,
     <<"Project", Tok(7, {"project"}, {"project"})>>,
     <<"Integration", Tok(11, {"integration"}, {"integration"})>>,
     <<"Merger", Tok(6, {"merger"}, {"merger"})>>,
     <<"Change", Tok(6, {"change"}, {"change"})>>,
     <<"Treasury", Tok(8, {}, {"treasury"})>>,
     <<"Manager", Tok(7, {}, {"manager"})>>,
     <<"Analyst", Tok(7, {}, {"analyst"})>>,
     <<"Cash", Tok(4, {}, {"cash"})>>,
     <<"CFO", Tok(3, {}, {"cfo"})>>,
     <<"m/w/d", Tok(5, {}, {})>>,
     <<"GmbH", Tok(4, {}, {"gmbh"})>>,
     <<"AG", Tok(2, {}, {"ag"})>>,
     <<"Acme", Tok(4, {}, {"acme"})>>,
     <<"Bank", Tok(4, {}, {"bank"})>>,
     <<"(DE)", Tok(4, {}, {"de"})>>,
     <<"hiring", Tok(6, {}, {"hiring"})>>,
     <<"now", Tok(3, {}, {"now"})>>,
     <<"Promoted", Tok(8, {}, {"promoted"})>>,
     <<"Unknown", Tok(7, {}, {"unknown"})>>,
     <<" ", Tok(1, {}, {})>>,
     <<",", Tok(1, {}, {})>>,
     <<"DE", Tok(2, {}, {"de"})>>,
     <<"CH", Tok(2, {}, {"ch"})>>,
     <<"Germany", Tok(7, {"germany"}, {"germany"})>>,
     <<"Switzerland", Tok(11, {"switzerland"}, {"switzerland"})>>,
     <<"Deutschland", Tok(11, {"deutschland"}, {"deutschland"})>>,
     <<"Schweiz", Tok(7, {"schweiz"}, {"schweiz"})>>,
     <<"Austria", Tok(7, {"austria"}, {"austria"})>>,
     <<"Berlin", Tok(6, {}, {"berlin"})>>,
     <<"Zurich", Tok(6, {}, {"zurich"})>>,
     <<"in", Tok(2, {}, {"in"})>>,
     <<"jobs", Tok(4, {}, {"jobs"})>>}

LexTable == [t \in {e[1] : e \in Lexicon} |-> (CHOOSE e \in Lexicon : e[1] = t)[2]]

\* a token the lexicon lacks is a word of six letters with no keyword in it
Lex(t) == IF t \in DOMAIN LexTable THEN LexTable[t] ELSE Tok(6, {}, {})

\* the keywords that occur as substrings of the lower-cased text
SubHits(text) == UNION {Lex(text[i]).sub : i \in 1..Len(text)}
\* the keywords that occur as whole words of the lower-cased text
WordHits(text) == UNION {Lex(text[i]).word : i \in 1..Len(text)}

\* len(text): the tokens and the blanks between them
SumLen(text, i) == IF i > Len(text) THEN 0 ELSE Lex(text[i]).len + SumLen(text, i + 1)
StrLen(text) == IF text = <<>> THEN 0 ELSE SumLen(text, 1) + (Len(text) - 1)

\* truthiness of a Python str (or None)
Truthy(text) == text # <<>> /\ text # None

(***************************************************************************)
(* Normalizer: company cleaning (both writers), noise lines, technology    *)
(* tags.                                                                   *)
(***************************************************************************)
LegalSuffix == {"gmbh", "ag", "se", "kgaa", "ltd", "inc", "corp", "sa"}
ParenToks == {"(DE)", "(Kyriba)"}     \* tokens of the form "(...)"
NumberToks == {"3"}                   \* tokens of digits

NOISE_PHRASES ==
    {<<"this", "company", "is", "actively", "hiring">>, <<"promoted">>,
     <<"hiring", "now">>, <<"actively", "hiring">>, <<"see", "more", "jobs">>,
     <<"view", "job">>, <<"easy", "apply">>, <<"apply">>,
     <<"school", "alumni">>, <<"connections">>}

\* re.sub(r"\s+", " ", s).strip(): blank tokens vanish, single blanks remain
StripWS(text) == SelectSeq(text, LAMBDA t : t # " ")

\* text.lower() == phrase
LowerEquals(text, phrase) ==
    /\ Len(text) = Len(phrase)
    /\ \A i \in 1..Len(text) : phrase[i] \in Lex(text[i]).word

InNoisePhrases(text) == \E p \in NOISE_PHRASES : LowerEquals(text, p)

\* re.sub(r"\s+(GmbH|AG|SE|KGaA|Ltd|Inc|Corp|SA)\.?\s*$", "", s, IGNORECASE):
\* one suffix at the end, and only after a blank
StripLegalSuffix(c) ==
    IF Len(c) >= 2 /\ Lex(Last(c)).word \cap LegalSuffix # {} THEN Front(c) ELSE c

\* re.sub(r"\s*\(.*?\)\s*", "", s): the fixtures keep "(...)" at either end
StripParens(c) == SelectSeq(c, LAMBDA t : t \notin ParenToks)

\* re.sub(r"\s*(hiring now|we're hiring).*", "", s, IGNORECASE)
CutHiring(c) ==
    LET at == {i \in 1..(Len(c) - 1) :
                  \/ "hiring" \in Lex(c[i]).word /\ "now" \in Lex(c[i + 1]).word
                  \/ "we're" \in Lex(c[i]).word /\ "hiring" \in Lex(c[i + 1]).word}
    IN  IF at = {} THEN c
        ELSE SubSeq(c, 1, (CHOOSE i \in at : \A j \in at : i <= j) - 1)

\* TreasuryWebScraper._clean_company
Web_clean_company(company) ==
    IF ~Truthy(company) THEN Unknown
    ELSE LET c == CutHiring(StripParens(StripLegalSuffix(StripWS(company))))
         IN  IF c = <<>> THEN Unknown ELSE c

\* EmailJobParser._clean_company
Mail_clean_company(company) ==
    LET c == StripLegalSuffix(StripWS(IF company = None THEN <<>> ELSE company))
    IN  IF InNoisePhrases(c) THEN <<>> ELSE c

\* EmailJobParser._is_noise_line
is_noise_line(line) ==
    LET l == StripWS(line)
    IN  \/ l = <<>>
        \/ InNoisePhrases(l)
        \/ /\ Len(l) >= 2
           /\ l[1] \in NumberToks
           /\ SubHits(l) \cap {"alumni", "connections"} # {}

\* "power bi" in text: two neighbouring words
HasPhrase(text, a, b) ==
    \E i \in 1..(Len(text) - 1) : a \in Lex(text[i]).word /\ b \in Lex(text[i + 1]).word

\* detect_technologies (the same code in both writers); a missing title is ""
detect_technologies(title) ==
    LET text == IF title = None \/ title = NaN THEN <<>> ELSE title
        tag(c, name) == IF c THEN <<name>> ELSE <<>>
    IN  tag(SubHits(text) \cap {"s/4hana", "s4hana", "s4 hana", "s/4 hana"} # {}, "SAP S/4HANA")
        \o tag("kyriba" \in SubHits(text), "Kyriba")
        \o tag("python" \in WordHits(text), "Python")
        \o tag("api" \in WordHits(text), "API")
        \o tag("swift" \in SubHits(text), "SWIFT")
        \o tag(HasPhrase(text, "power", "bi") \/ "powerbi" \in SubHits(text), "Power BI")


(***************************************************************************)
(* The canonical job store: rows, the CSV round trip, drop_duplicates.     *)
(***************************************************************************)

\* one job dict / one row; a key the dict lacks is the NaN of its DataFrame
Job(date, source, company, title, location, country, url) ==
    [date_scraped |-> date, source |-> source, company |-> company,
     title |-> title, location |-> location, country |-> country,
     url |-> url, technologies |-> NaN]

\* DataFrame.to_csv: a missing cell is written as the empty field
to_csv_row(r) ==
    [r EXCEPT !.company = IF @ = NaN THEN <<>> ELSE @,
              !.title = IF @ = NaN THEN <<>> ELSE @,
              !.location = IF @ = NaN THEN <<>> ELSE @,
              !.country = IF @ = NaN THEN <<>> ELSE @,
              !.technologies = IF @ = NaN THEN <<>> ELSE @,
              !.url = IF @ = NaNStr THEN "" ELSE @]

to_csv(frame) == File([i \in 1..Len(frame) |-> to_csv_row(frame[i])])

\* pd.read_csv: an empty field is read as a missing cell
read_csv_row(r) ==
    [r EXCEPT !.company = IF @ = <<>> THEN NaN ELSE @,
              !.title = IF @ = <<>> THEN NaN ELSE @,
              !.location = IF @ = <<>> THEN NaN ELSE @,
              !.country = IF @ = <<>> THEN NaN ELSE @,
              !.technologies = IF @ = <<>> THEN NaN ELSE @,
              !.url = IF @ = "" THEN NaNStr ELSE @]

read_csv(file) == [i \in 1..Len(file.rows) |-> read_csv_row(file.rows[i])]

\* the cells of row r in the columns of subset
KeyOf(r, subset) == [c \in subset |-> r[c]]

RECURSIVE drop_duplicates_last(_, _)
RECURSIVE drop_duplicates_first(_, _)

\* DataFrame.drop_duplicates(subset=subset, keep="last")
drop_duplicates_last(frame, subset) ==
    IF frame = <<>> THEN <<>>
    ELSE IF \E j \in 2..Len(frame) : KeyOf(frame[j], subset) = KeyOf(frame[1], subset)
         THEN drop_duplicates_last(Tail(frame), subset)
         ELSE <<Head(frame)>> \o drop_duplicates_last(Tail(frame), subset)

\* DataFrame.drop_duplicates(subset=subset) (keep="first")
drop_duplicates_first(frame, subset) ==
    IF frame = <<>> THEN <<>>
    ELSE LET n == Len(frame)
         IN  IF \E j \in 1..(n - 1) : KeyOf(frame[j], subset) = KeyOf(frame[n], subset)
             THEN drop_duplicates_first(Front(frame), subset)
             ELSE drop_duplicates_first(Front(frame), subset) \o <<frame[n]>>

\* df["technologies"] = df["title"].apply(", ".join(detect_technologies(x)))
WithTechnologies(frame) ==
    [i \in 1..Len(frame) |->
        [frame[i] EXCEPT !.technologies = detect_technologies(frame[i].title)]]

\* a variant without the test for an empty batch
Web_save_to_csv_unguarded(file, jobs) ==
    LET frame == WithTechnologies(jobs)
    IN  IF file.exists
        THEN to_csv(drop_duplicates_last(
                        drop_duplicates_last(read_csv(file) \o frame, {"url"}),
                        {"company", "title", "location"}))
        ELSE to_csv(frame)

\* TreasuryWebScraper.save_to_csv: the file it leaves, given the file it finds
Web_save_to_csv(file, jobs) ==
    IF jobs = <<>> THEN file
    ELSE LET frame == WithTechnologies(jobs)
         IN  IF file.exists
             THEN to_csv(drop_duplicates_last(
                             drop_duplicates_last(read_csv(file) \o frame, {"url"}),
                             {"company", "title", "location"}))
             ELSE to_csv(frame)

\* EmailJobParser.save_to_csv
Mail_save_to_csv(file, jobs) ==
    IF jobs = <<>> THEN file
    ELSE IF file.exists
         THEN to_csv(drop_duplicates_last(read_csv(file) \o jobs,
                         {"source", "company", "title", "location", "url"}))
         ELSE to_csv(jobs)

\* the schema of the job store
Columns ==
    <<"date_scraped", "source", "company", "title", "location", "country", "url",
      "technologies">>

\* pd.DataFrame(self.jobs) of the scraper, then df["technologies"] = ...: the
\* keys of the dicts in the order of their first appearance; a StepStone dict
\* has no "country" key, a Jobs.ch dict has it behind "url"
Web_columns(jobs) ==
    <<"date_scraped", "source", "company", "title", "location", "url">>
    \o (IF \E i \in 1..Len(jobs) : jobs[i].country # NaN THEN <<"country">> ELSE <<>>)
    \o <<"technologies">>

\* pd.DataFrame(self.jobs) of the email parser: the keys of a record of
\* process_all_emails; the loop over the expected columns finds none missing
Mail_columns(jobs) ==
    <<"date_scraped", "source", "company", "title", "location", "country", "url",
      "technologies">>

\* pd.concat([existing, df]): the columns of the first frame, then the new
\* ones of the second
concat_columns(existing, new) ==
    existing \o SelectSeq(new, LAMBDA c : c \notin SeqToSet(existing))

\* TreasuryWebScraper.save_to_csv: the header line it leaves
Web_save_columns(file, columns, jobs) ==
    IF jobs = <<>> THEN columns
    ELSE IF file.exists THEN concat_columns(columns, Web_columns(jobs))
    ELSE Web_columns(jobs)

\* EmailJobParser.save_to_csv: the header line it leaves
Mail_save_columns(file, columns, jobs) ==
    IF jobs = <<>> THEN columns
    ELSE IF file.exists THEN concat_columns(columns, Mail_columns(jobs))
    ELSE Mail_columns(jobs)

\* the records of a file, as a set (order and repetition forgotten)
Rows(file) == SeqToSet(file.rows)


(***************************************************************************)
(* Field extractor, web sources.  A card is what the selectors of the      *)
(* code find in it: the text of each element, or None when there is none.  *)
(***************************************************************************)
\* element.get_text(" ", strip=True)
get_text(elem) == StripWS(elem)

\* scrape_stepstone_de, the body of the loop over the cards of one search:
\* the jobs this card appends (none or one)
stepstone_card(card, location, date) ==
    IF card.raises THEN <<>>
    ELSE LET title == IF card.title_elem # None THEN get_text(card.title_elem) ELSE Unknown
             company == Web_clean_company(
                            IF card.company_elem # None THEN get_text(card.company_elem)
                            ELSE Unknown)
             job_location == IF card.location_elem # None THEN get_text(card.location_elem)
                             ELSE location
             job_url == card.href
         IN  IF title # Unknown /\ company # Unknown /\ job_url # ""
             THEN <<Job(date, "StepStone.de", company, title, job_location, NaN, job_url)>>
             ELSE <<>>

\* TreasuryWebScraper._extract_title_jobs_ch
extract_title_jobs_ch(card) ==
    IF card.h_elem = None /\ card.link_text # None
          /\ get_text(card.link_text) # <<>> /\ StrLen(get_text(card.link_text)) > 5
    THEN get_text(card.link_text)
    ELSE IF card.h_elem # None
         THEN (IF get_text(card.h_elem) # <<>> THEN get_text(card.h_elem) ELSE Unknown)
         ELSE Unknown

\* c_clean and c_clean.lower() not in ("unknown", "switzerland")
is_company_name(c_clean) ==
    /\ c_clean # <<>>
    /\ ~LowerEquals(c_clean, <<"unknown">>)
    /\ ~LowerEquals(c_clean, <<"switzerland">>)

\* the first candidate that cleans to a company name, else "Unknown"
first_company(cleaned) ==
    LET good == {i \in 1..Len(cleaned) : is_company_name(cleaned[i])}
    IN  IF good = {} THEN Unknown ELSE cleaned[CHOOSE i \in good : \A j \in good : i <= j]

\* the candidates: the texts of the company selectors, then the line after the title
company_candidates(card, title) ==
    SelectSeq(card.company_texts, LAMBDA t : get_text(t) # <<>>)
    \o (IF title # <<>> /\ title # Unknown /\ card.next_line # None
           /\ StrLen(card.next_line) <= 80
        THEN <<card.next_line>> ELSE <<>>)

CleanAll(candidates) ==
    [i \in 1..Len(candidates) |-> Web_clean_company(get_text(candidates[i]))]

\* TreasuryWebScraper._extract_company_jobs_ch
extract_company_jobs_ch(card) ==
    first_company(CleanAll(company_candidates(card, extract_title_jobs_ch(card))))

\* TreasuryWebScraper._extract_location_jobs_ch: None when nothing is found
extract_location_jobs_ch(card) ==
    IF card.location_elem # None /\ get_text(card.location_elem) # <<>>
    THEN get_text(card.location_elem) ELSE None

\* the job dict of scrape_jobs_ch, if the card is accepted
jobs_ch_job(date, job_url, title, company, found) ==
    IF title # Unknown /\ job_url # ""
    THEN <<Job(date, "Jobs.ch",
               IF Truthy(company) THEN Web_clean_company(company) ELSE Unknown,
               title, IF Truthy(found) THEN found ELSE <<"Switzerland">>,
               <<"Switzerland">>, job_url)>>
    ELSE <<>>

\* scrape_jobs_ch, the body of the loop over the cards of one search
jobs_ch_card(card, date) ==
    IF card.raises THEN <<>>
    ELSE jobs_ch_job(date, card.href, extract_title_jobs_ch(card),
                     extract_company_jobs_ch(card), extract_location_jobs_ch(card))

RECURSIVE jobs_ch_cards_one_try(_, _)
\* a variant with one try block around the whole loop: the first card that
\* raises ends the search
jobs_ch_cards_one_try(cards, date) ==
    IF cards = <<>> \/ Head(cards).raises THEN <<>>
    ELSE jobs_ch_card(Head(cards), date) \o jobs_ch_cards_one_try(Tail(cards), date)

RECURSIVE jobs_ch_cards(_, _)
\* the batch of one search: the cards in page order
jobs_ch_cards(cards, date) ==
    IF cards = <<>> THEN <<>>
    ELSE jobs_ch_card(Head(cards), date) \o jobs_ch_cards(Tail(cards), date)

needs_company(job) == job.company \in {None, <<>>, Unknown}
needs_title(job) == job.title \in {None, <<>>, Unknown}
needs_location(job) == job.location \in {None, <<>>, Unknown, <<"Switzerland">>}
needs_country(job) == job.country \in {None, <<>>, Unknown}

\* the first of the JSON-LD value and the selector value that is there
FirstFound(ld, wanted, sel) ==
    IF Truthy(ld) THEN ld ELSE IF wanted /\ Truthy(sel) THEN sel ELSE None

\* the text a company selector of the detail page yields, None when unusable
company_from_selector(txt) ==
    IF txt # <<>> /\ ~LowerEquals(txt, <<"unknown">>) THEN txt ELSE None

country_name(cc) == IF LowerEquals(cc, <<"ch">>) THEN <<"Switzerland">> ELSE cc

\* the assignments at the end of the loop body
enriched(job, title_ld, company_ld, city_ld, country_ld) ==
    [job EXCEPT
        !.title = IF needs_title(job) /\ Truthy(title_ld) THEN StripWS(title_ld) ELSE @,
        !.company = IF needs_company(job) /\ Truthy(company_ld)
                    THEN Web_clean_company(company_ld) ELSE @,
        !.location = IF needs_location(job) /\ Truthy(city_ld) THEN StripWS(city_ld) ELSE @,
        !.country = IF needs_country(job) /\ Truthy(country_ld)
                    THEN country_name(StripWS(country_ld)) ELSE @]

\* _enrich_jobs_ch_from_detail_pages, one job and the detail page behind its url:
\* JSON-LD first (title_ld, company_ld, city_ld, country_ld), then the HTML
\* selectors (h1, company_sel, city_sel)
enrich_job(job, page) ==
    IF page.raises THEN job
    ELSE enriched(job,
             FirstFound(page.title_ld, needs_title(job),
                        IF page.h1 = None THEN None ELSE get_text(page.h1)),
             FirstFound(page.company_ld, needs_company(job),
                        IF page.company_sel = None THEN None
                        ELSE company_from_selector(
                                 Web_clean_company(get_text(page.company_sel)))),
             FirstFound(page.city_ld, needs_location(job),
                        IF page.city_sel = None THEN None
                        ELSE StripWS(get_text(page.city_sel))),
             FirstFound(page.country_ld, needs_country(job), <<"Switzerland">>))

needs_detail_page(job) ==
    needs_company(job) \/ needs_title(job) \/ needs_location(job) \/ needs_country(job)

RECURSIVE enrich_jobs_ch_from_detail_pages(_, _, _, _)
\* TreasuryWebScraper._enrich_jobs_ch_from_detail_pages; pages[i] is the page
\* behind jobs[i], checked counts the pages opened so far
enrich_jobs_ch_from_detail_pages(jobs, pages, checked, max_pages) ==
    IF jobs = <<>> THEN <<>>
    ELSE IF checked >= max_pages THEN jobs
    ELSE IF ~needs_detail_page(Head(jobs)) \/ Head(jobs).url = ""
         THEN <<Head(jobs)>>
              \o enrich_jobs_ch_from_detail_pages(Tail(jobs), Tail(pages), checked, max_pages)
         ELSE <<enrich_job(Head(jobs), Head(pages))>>
              \o enrich_jobs_ch_from_detail_pages(Tail(jobs), Tail(pages), checked + 1,
                                                  max_pages)


(***************************************************************************)
(* Field extractor, LinkedIn alert emails.  An email is its subject and    *)
(* the anchors of its HTML body: each anchor's job url and the lines of    *)
(* text of its container.  "·" and "," are tokens of their own.            *)
(***************************************************************************)
\* COUNTRY_HINTS, in the order of the dict
COUNTRY_HINTS ==
    <<[key |-> "germany", country |-> <<"Germany">>],
      [key |-> "switzerland", country |-> <<"Switzerland">>],
      [key |-> "austria", country |-> <<"Austria">>],
      [key |-> "deutschland", country |-> <<"Germany">>],
      [key |-> "schweiz", country |-> <<"Switzerland">>],
      [key |-> "österreich", country |-> <<"Austria">>]>>

\* EmailJobParser._infer_country_from_subject: None when no hint matches
infer_country_from_subject(subject) ==
    LET s == IF subject = None THEN <<>> ELSE subject
        hit == {i \in 1..Len(COUNTRY_HINTS) : COUNTRY_HINTS[i].key \in SubHits(s)}
    IN  IF hit = {} THEN None
        ELSE COUNTRY_HINTS[CHOOSE i \in hit : \A j \in hit : i <= j].country

RECURSIVE SplitOn(_, _)
\* text.split(sep) for a separator that is a token
SplitOn(text, sep) ==
    LET at == {i \in 1..Len(text) : text[i] = sep}
    IN  IF at = {} THEN <<text>>
        ELSE LET i == CHOOSE k \in at : \A j \in at : k <= j
             IN  <<SubSeq(text, 1, i - 1)>> \o SplitOn(SubSeq(text, i + 1, Len(text)), sep)

\* the country of a location "..., Country": the text after the last comma
country_of(location, last) ==
    IF "," \in SeqToSet(location) /\ StrLen(last) >= 3 THEN last ELSE <<>>

location_fields(location) ==
    [location |-> location,
     country |-> country_of(location, StripWS(Last(SplitOn(location, ","))))]

parsed_parts(parts) ==
    [company |-> IF Len(parts) >= 1 THEN Mail_clean_company(parts[1]) ELSE <<>>]
    @@ (IF Len(parts) >= 2 THEN location_fields(StripWS(parts[2]))
        ELSE [location |-> <<>>, country |-> <<>>])

StripAll(texts) == [i \in 1..Len(texts) |-> StripWS(texts[i])]

\* EmailJobParser._parse_company_and_location_from_line
parse_company_and_location_from_line(line) ==
    parsed_parts(SelectSeq(StripAll(SplitOn(StripWS(IF line = None THEN <<>> ELSE line), "·")),
                           LAMBDA q : q # <<>>))

RECURSIVE TextLen(_)
\* len(text) of a container text: its lines and the newlines between them
TextLen(lines) ==
    IF lines = <<>> THEN 0
    ELSE StrLen(Head(lines)) + (IF Len(lines) > 1 THEN 1 ELSE 0) + TextLen(Tail(lines))

\* max(texts, key=lambda t: (t.count("\n"), len(t))): the first of the greatest
richer(a, b) == Len(a) > Len(b) \/ (Len(a) = Len(b) /\ TextLen(a) > TextLen(b))

best_text(texts) ==
    texts[CHOOSE i \in 1..Len(texts) :
             /\ \A j \in 1..Len(texts) : ~richer(texts[j], texts[i])
             /\ \A j \in 1..(i - 1) : richer(texts[i], texts[j])]

\* the lines of a block: stripped, the empty and the noise lines removed
block_lines(text) ==
    SelectSeq(StripAll(text), LAMBDA l : l # <<>> /\ ~is_noise_line(l))

\* the parses of lines[1:5], in order
scanned_lines(lines) ==
    [i \in 1..((IF Len(lines) < 5 THEN Len(lines) ELSE 5) - 1) |->
        parse_company_and_location_from_line(lines[i + 1])]

\* company, location and country after the scan of the next lines
scan_fields(first, scanned) ==
    LET hit == {i \in 1..Len(scanned) : scanned[i].company # <<>>}
    IN  IF first.company # <<>> \/ hit = {} THEN first
        ELSE LET found == scanned[CHOOSE i \in hit : \A j \in hit : i <= j]
             IN  [company |-> found.company,
                  location |-> IF first.location # <<>> THEN first.location
                               ELSE found.location,
                  country |-> IF first.country # <<>> THEN first.country
                              ELSE found.country]

\* the country fallback, then the location fallback
with_fallbacks(f, country) ==
    [company |-> IF f.company # <<>> THEN f.company ELSE Unknown,
     location |-> IF f.location # <<>> THEN f.location
                  ELSE IF country # <<>> THEN country ELSE Unknown,
     country |-> IF country # <<>> THEN country ELSE Unknown]

job_of_fields(url, title, f, date) ==
    IF StrLen(title) < 5 THEN <<>>
    ELSE <<Job(date, "LinkedIn", f.company, title, f.location, f.country, url)>>

fields_of_lines(lines, fallback_country) ==
    LET f == scan_fields(IF Len(lines) >= 2
                         THEN parse_company_and_location_from_line(lines[2])
                         ELSE [company |-> <<>>, location |-> <<>>, country |-> <<>>],
                         scanned_lines(lines))
    IN  with_fallbacks(f, IF f.country = <<>> /\ Truthy(fallback_country)
                          THEN fallback_country ELSE f.country)

\* the job of the lines of one block; none when no line is left or the title
\* is too short
job_from_lines(url, lines, fallback_country, date) ==
    IF lines = <<>> THEN <<>>
    ELSE job_of_fields(url, lines[1], fields_of_lines(lines, fallback_country), date)

\* the loop body over candidates.items(): the job of one url
job_from_texts(url, texts, fallback_country, date) ==
    job_from_lines(url, block_lines(best_text(texts)), fallback_country, date)

RECURSIVE jobs_of_urls(_, _, _, _)
\* the loop over candidates.items(): the urls in the order of their first anchor
jobs_of_urls(urls, anchors, fallback_country, date) ==
    IF urls = <<>> THEN <<>>
    ELSE LET mine == SelectSeq(anchors, LAMBDA a : a.url = Head(urls))
             texts == [i \in 1..Len(mine) |-> mine[i].text]
         IN  job_from_texts(Head(urls), texts, fallback_country, date)
             \o jobs_of_urls(Tail(urls), anchors, fallback_country, date)

RECURSIVE FirstSeen(_)
\* the distinct elements of a sequence, in the order of first occurrence
FirstSeen(s) ==
    IF s = <<>> THEN <<>>
    ELSE LET rest == FirstSeen(Front(s))
         IN  IF Last(s) \in SeqToSet(rest) THEN rest ELSE rest \o <<Last(s)>>

\* EmailJobParser._extract_jobs_from_html
extract_jobs_from_html(html, fallback_country, date) ==
    LET anchors == SelectSeq(html, LAMBDA a : a.text # <<>> /\ TextLen(a.text) >= 10)
        urls == FirstSeen([i \in 1..Len(anchors) |-> anchors[i].url])
    IN  drop_duplicates_first(jobs_of_urls(urls, anchors, fallback_country, date),
                              {"title", "company", "location", "url"})

\* process_all_emails, the body of the loop over the messages: the jobs one
\* message adds to self.jobs
process_email(email, date) ==
    IF email.raises \/ email.html = <<>> THEN <<>>
    ELSE extract_jobs_from_html(email.html, infer_country_from_subject(email.subject), date)

\* process_all_emails, after the loop: tag technologies, drop duplicates
process_all_emails_finish(jobs) ==
    IF jobs = <<>> THEN jobs
    ELSE drop_duplicates_first(WithTechnologies(jobs),
                               {"source", "company", "title", "location", "url"})


(***************************************************************************)
(* Inputs of the ingestion runs.                                           *)
(***************************************************************************)
\* the locations of the searches of scrape_stepstone_de
StepstoneLocations == {<<"Deutschland">>, <<"München">>}

StepstoneCard(title, company, location, href) ==
    [raises |-> FALSE, title_elem |-> title, company_elem |-> company,
     location_elem |-> location, href |-> href]

StepstoneCards ==
    {StepstoneCard(<<"Treasury", "Manager">>, <<"Acme", "GmbH">>, None,
                   "https://www.stepstone.de/1"),
     \* a heading element with no text
     StepstoneCard(<<>>, <<"Acme", "GmbH">>, <<"Berlin">>, "https://www.stepstone.de/2"),
     \* no company element
     StepstoneCard(<<"Cash", "Manager">>, None, <<"Berlin">>, "https://www.stepstone.de/3"),
     \* no title element
     StepstoneCard(None, <<"Acme", "GmbH">>, <<"Berlin">>, "https://www.stepstone.de/4"),
     \* a card whose parsing raises
     [StepstoneCard(None, None, None, "") EXCEPT !.raises = TRUE]}

JobsChCard(h, link, companies, next, location, href) ==
    [raises |-> FALSE, h_elem |-> h, link_text |-> link, company_texts |-> companies,
     next_line |-> next, location_elem |-> location, href |-> href]

JobsChCards ==
    {\* a list card that shows neither employer nor place
     JobsChCard(<<"Treasury", "Manager">>, <<"Treasury", "Manager">>, <<>>, None, None,
                "https://www.jobs.ch/en/jobs/7"),
     JobsChCard(<<"Cash", "Manager">>, <<"Cash", "Manager">>, <<<<"Acme", "AG">>>>, None,
                <<"Zurich">>, "https://www.jobs.ch/en/jobs/8"),
     \* no heading, and a link text of three characters
     JobsChCard(None, <<"CFO">>, <<>>, None, None, "https://www.jobs.ch/en/jobs/9")}

DetailPage(title_ld, company_ld, city_ld) ==
    [raises |-> FALSE, title_ld |-> title_ld, h1 |-> None, company_ld |-> company_ld,
     company_sel |-> None, city_ld |-> city_ld, city_sel |-> None, country_ld |-> None]

DetailPages ==
    {[DetailPage(None, None, None) EXCEPT !.raises = TRUE],
     DetailPage(<<"Treasury", "Manager">>, <<"Acme", "AG">>, <<"Zurich">>)}

Anchor(url, text) == [url |-> url, text |-> text]
\* a message: html is what find_all("a", href=True) finds in the body that
\* _get_email_body_html returns; plain and marker are the lines and the job
\* link of a text/plain body
Email(subject, html) ==
    [raises |-> FALSE, subject |-> subject, html |-> html, plain |-> <<>>, marker |-> ""]

\* a single-part text/plain message: its body is returned as it is
\* (_get_email_body_html, the last branch) and holds no <a> element
PlainEmail(subject, lines, url) ==
    [Email(subject, <<>>) EXCEPT !.plain = lines, !.marker = url]

Emails ==
    {Email(<<"Treasury", "jobs", "in", "Germany">>,
           <<Anchor("https://www.linkedin.com/comm/jobs/view/5",
                    <<<<"Treasury", "Manager">>,
                      <<"Acme", "GmbH", "·", "Berlin", ",", "Germany">>>>)>>),
     \* a later alert for the same posting, its title edited
     Email(<<"Treasury", "jobs">>,
           <<Anchor("https://www.linkedin.com/comm/jobs/view/5",
                    <<<<"Senior", "Treasury", "Manager">>,
                      <<"Acme", "GmbH", "·", "Berlin", ",", "Germany">>>>)>>),
     \* a block whose first line is too short for a title
     Email(<<"Treasury", "jobs">>,
           <<Anchor("https://www.linkedin.com/comm/jobs/view/6",
                    <<<<"CFO">>, <<"Acme", "GmbH", "·", "Berlin">>>>)>>),
     \* an alert for one country that lists a job placed in another
     Email(<<"Treasury", "jobs", "in", "Germany">>,
           <<Anchor("https://www.linkedin.com/comm/jobs/view/8",
                    <<<<"Cash", "Manager">>,
                      <<"Bank", "AG", "·", "Zurich", ",", "Switzerland">>>>)>>),
     \* a plain-text alert: title, company and place above the line of the link
     PlainEmail(<<"Treasury", "jobs">>,
                <<<<"Treasury", "Manager">>, <<"Acme", "GmbH">>, <<"Berlin">>>>,
                "https://www.linkedin.com/comm/jobs/view/9"),
     \* a message whose retrieval raises
     [Email(<<>>, <<>>) EXCEPT !.raises = TRUE]}

\* the sequences over S of length 1..n
SeqsUpTo(S, n) == UNION {[1..k -> S] : k \in 1..n}

(***************************************************************************)
(* Ingestion: the runs of scraper.py and of email_parser.py, one at a      *)
(* time.                                                                   *)
(***************************************************************************)
NoSave == [writer |-> "none", before |-> NoFile]

IngestInit ==
    /\ store = NoFile /\ header = <<>>
    /\ web_pc = "idle" /\ web_jobs = <<>>
    /\ mail_pc = "idle" /\ mail_jobs = <<>>
    /\ today = 0
    /\ prev_save = NoSave

\* scraper.py main(): TreasuryWebScraper()
WebStart ==
    /\ web_pc = "idle" /\ mail_pc = "idle"
    /\ web_pc' = "stepstone"
    /\ web_jobs' = <<>>
    /\ prev_save' = NoSave
    /\ UNCHANGED <<store, header, mail_pc, mail_jobs, today>>

\* a variant of the scraper that saves what it has after every card
ScrapeStepstoneCard_incremental ==
    /\ web_pc = "stepstone"
    /\ \E card \in StepstoneCards, location \in StepstoneLocations :
          /\ web_jobs' = web_jobs \o stepstone_card(card, location, today)
          /\ Len(web_jobs') <= MaxBatch
    /\ store' = Web_save_to_csv(store, web_jobs')
    /\ header' = Web_save_columns(store, header, web_jobs')
    /\ Len(store'.rows) <= MaxStore
    /\ UNCHANGED <<web_pc, mail_pc, mail_jobs, today, prev_save>>

\* scrape_stepstone_de: one card of one search
ScrapeStepstoneCard ==
    /\ web_pc = "stepstone"
    /\ \E card \in StepstoneCards, location \in StepstoneLocations :
          /\ web_jobs' = web_jobs \o stepstone_card(card, location, today)
          /\ Len(web_jobs') <= MaxBatch
    /\ UNCHANGED <<store, header, web_pc, mail_pc, mail_jobs, today, prev_save>>

\* scrape_stepstone_de returns; main() calls scrape_jobs_ch
StepstoneDone ==
    /\ web_pc = "stepstone"
    /\ web_pc' = "jobs_ch"
    /\ UNCHANGED <<store, header, web_jobs, mail_pc, mail_jobs, today, prev_save>>

\* scrape_jobs_ch: one search, its cards, and the detail pages opened for them
ScrapeJobsChSearch ==
    /\ web_pc = "jobs_ch"
    /\ \E cards \in SeqsUpTo(JobsChCards, MaxBatch) :
          LET batch == jobs_ch_cards(cards, today)
          IN  \E pages \in [1..Len(batch) -> DetailPages] :
                 /\ web_jobs' = web_jobs \o enrich_jobs_ch_from_detail_pages(batch, pages, 0, 8)
                 /\ Len(web_jobs') <= MaxBatch
    /\ UNCHANGED <<store, header, web_pc, mail_pc, mail_jobs, today, prev_save>>

\* scrape_jobs_ch returns; main() calls save_to_csv next
JobsChDone ==
    /\ web_pc = "jobs_ch"
    /\ web_pc' = "save"
    /\ UNCHANGED <<store, header, web_jobs, mail_pc, mail_jobs, today, prev_save>>

\* scraper.save_to_csv("treasury_jobs.csv")
WebSave ==
    /\ web_pc = "save"
    /\ store' = Web_save_to_csv(store, web_jobs)
    /\ header' = Web_save_columns(store, header, web_jobs)
    /\ Len(store'.rows) <= MaxStore
    /\ prev_save' = [writer |-> "web", before |-> store]
    /\ web_pc' = "saved"
    /\ UNCHANGED <<web_jobs, mail_pc, mail_jobs, today>>

\* the unchanged batch is ingested once more
WebSaveAgain ==
    /\ web_pc = "saved"
    /\ store' = Web_save_to_csv(store, web_jobs)
    /\ header' = Web_save_columns(store, header, web_jobs)
    /\ Len(store'.rows) <= MaxStore
    /\ prev_save' = [writer |-> "web", before |-> store]
    /\ web_pc' = "saved_again"
    /\ UNCHANGED <<web_jobs, mail_pc, mail_jobs, today>>

\* main(): something raises inside the try block before the store is
\* written; the except branch reports it
WebAbort ==
    /\ web_pc \in {"stepstone", "jobs_ch", "save"}
    /\ web_pc' = "failed"
    /\ UNCHANGED <<store, header, web_jobs, mail_pc, mail_jobs, today, prev_save>>

\* scraper.close(): the run is over
WebClose ==
    /\ web_pc \in {"saved", "saved_again", "failed"}
    /\ web_pc' = "idle"
    /\ web_jobs' = <<>>
    /\ prev_save' = NoSave
    /\ UNCHANGED <<store, header, mail_pc, mail_jobs, today>>

\* email_parser.py main(): EmailJobParser()
MailStart ==
    /\ web_pc = "idle" /\ mail_pc = "idle"
    /\ mail_pc' = "fetch"
    /\ mail_jobs' = <<>>
    /\ prev_save' = NoSave
    /\ UNCHANGED <<store, header, web_pc, web_jobs, today>>

\* process_all_emails: get_linkedin_emails returns messages, or none
MailFetch ==
    /\ mail_pc = "fetch"
    /\ \E found \in BOOLEAN : mail_pc' = IF found THEN "parse" ELSE "save"
    /\ UNCHANGED <<store, header, web_pc, web_jobs, mail_jobs, today, prev_save>>

\* process_all_emails: one message of the loop
MailParseEmail ==
    /\ mail_pc = "parse"
    /\ \E email \in Emails :
          /\ mail_jobs' = mail_jobs \o process_email(email, today)
          /\ Len(mail_jobs') <= MaxBatch
    /\ UNCHANGED <<store, header, web_pc, web_jobs, mail_pc, today, prev_save>>

\* process_all_emails: the loop is over
MailFinish ==
    /\ mail_pc = "parse"
    /\ mail_jobs' = process_all_emails_finish(mail_jobs)
    /\ mail_pc' = "save"
    /\ UNCHANGED <<store, header, web_pc, web_jobs, today, prev_save>>

\* parser.save_to_csv("treasury_jobs.csv")
MailSave ==
    /\ mail_pc = "save"
    /\ store' = Mail_save_to_csv(store, mail_jobs)
    /\ header' = Mail_save_columns(store, header, mail_jobs)
    /\ Len(store'.rows) <= MaxStore
    /\ prev_save' = [writer |-> "mail", before |-> store]
    /\ mail_pc' = "saved"
    /\ UNCHANGED <<web_pc, web_jobs, mail_jobs, today>>

\* the unchanged batch is ingested once more
MailSaveAgain ==
    /\ mail_pc = "saved"
    /\ store' = Mail_save_to_csv(store, mail_jobs)
    /\ header' = Mail_save_columns(store, header, mail_jobs)
    /\ Len(store'.rows) <= MaxStore
    /\ prev_save' = [writer |-> "mail", before |-> store]
    /\ mail_pc' = "saved_again"
    /\ UNCHANGED <<web_pc, web_jobs, mail_jobs, today>>

\* main(): something raises before the store is written; nothing catches it
MailAbort ==
    /\ mail_pc \in {"fetch", "parse", "save"}
    /\ mail_pc' = "failed"
    /\ UNCHANGED <<store, header, web_pc, web_jobs, mail_jobs, today, prev_save>>

\* main() returns, or ends with the exception
MailClose ==
    /\ mail_pc \in {"saved", "saved_again", "failed"}
    /\ mail_pc' = "idle"
    /\ mail_jobs' = <<>>
    /\ prev_save' = NoSave
    /\ UNCHANGED <<store, header, web_pc, web_jobs, today>>

IngestNext ==
    \/ WebStart \/ ScrapeStepstoneCard \/ StepstoneDone \/ ScrapeJobsChSearch
    \/ JobsChDone \/ WebSave \/ WebSaveAgain \/ WebAbort \/ WebClose
    \/ MailStart \/ MailFetch \/ MailParseEmail \/ MailFinish
    \/ MailSave \/ MailSaveAgain \/ MailAbort \/ MailClose


(***************************************************************************)
(* Lead scoring engine (lead_scoring.py).  The clock is a day and a time   *)
(* of day (0: midnight sharp, 1: later); date_scraped is the midnight of   *)
(* its day.                                                                *)
(***************************************************************************)
Now(day, tod) == [day |-> day, tod |-> tod]

\* date_scraped >= datetime.now() - timedelta(days=30)
InLast30Days(date, now) == date > now.day - 30 \/ (date = now.day - 30 /\ now.tod = 0)

\* self.df[self.df['company'] == company_name]; NaN equals nothing
CompanyJobs(frame, company_name) ==
    SelectSeq(frame, LAMBDA r : company_name # NaN /\ r.company = company_name)

\* the keywords of kws found in ' '.join(titles).lower(); a missing title is ''
TitleHits(jobs, kws) ==
    kws \cap UNION {IF jobs[i].title = NaN THEN {} ELSE SubHits(jobs[i].title) :
                    i \in 1..Len(jobs)}

\* the tags found in ' '.join(technologies); a missing cell is ''
AllTech(jobs) ==
    UNION {IF jobs[i].technologies = NaN THEN {} ELSE SeqToSet(jobs[i].technologies) :
           i \in 1..Len(jobs)}

\* company_jobs['location'].nunique(): missing cells do not count
UniqueLocations(jobs) ==
    Cardinality({jobs[i].location : i \in 1..Len(jobs)} \ {NaN})

JobsLast30Days(jobs, now) ==
    Len(SelectSeq(jobs, LAMBDA r : InLast30Days(r.date_scraped, now)))

interim_keywords == {"interim", "freelance", "project", "contract", "consultant"}
senior_keywords == {"head", "director", "senior", "lead", "principal", "chief"}

\* a variant that gives a company with five jobs or more the points of one job
VelocityPoints_peaked(jobs_count) ==
    IF jobs_count >= 5 THEN 10
    ELSE IF jobs_count >= 3 THEN 20
    ELSE IF jobs_count >= 2 THEN 15
    ELSE IF jobs_count >= 1 THEN 10
    ELSE 0

\* FACTOR 1: hiring velocity
VelocityPoints(jobs_count) ==
    IF jobs_count >= 5 THEN 25
    ELSE IF jobs_count >= 3 THEN 20
    ELSE IF jobs_count >= 2 THEN 15
    ELSE IF jobs_count >= 1 THEN 10
    ELSE 0

\* a variant in which the three conditions exclude one another
TechPoints_exclusive(all_tech) ==
    IF "SAP S/4HANA" \in all_tech THEN 15
    ELSE IF "Kyriba" \in all_tech THEN 10
    ELSE IF "API" \in all_tech \/ "Python" \in all_tech THEN 5 ELSE 0

\* FACTOR 2: technology transformation signals
TechPoints(all_tech) ==
    (IF "SAP S/4HANA" \in all_tech THEN 15 ELSE 0)
    + (IF "Kyriba" \in all_tech THEN 10 ELSE 0)
    + (IF "API" \in all_tech \/ "Python" \in all_tech THEN 5 ELSE 0)

\* FACTOR 3: job type mix
JobTypePoints(interim_count) ==
    IF interim_count >= 2 THEN 25 ELSE IF interim_count >= 1 THEN 15 ELSE 0

\* FACTOR 4: seniority mix
SeniorityPoints(senior_count) ==
    IF senior_count >= 2 THEN 10 ELSE IF senior_count >= 1 THEN 5 ELSE 0

\* FACTOR 5: geographic expansion
GeographyPoints(unique_locations) ==
    IF unique_locations >= 3 THEN 10 ELSE IF unique_locations >= 2 THEN 5 ELSE 0

Min(a, b) == IF a <= b THEN a ELSE b

\* the sum of the five factors, clamped
ScoreOfJobs(company_jobs, now) ==
    Min(100, VelocityPoints(JobsLast30Days(company_jobs, now))
             + TechPoints(AllTech(company_jobs))
             + JobTypePoints(Cardinality(TitleHits(company_jobs, interim_keywords)))
             + SeniorityPoints(Cardinality(TitleHits(company_jobs, senior_keywords)))
             + GeographyPoints(UniqueLocations(company_jobs)))

\* a variant that answers -1 for a company without jobs
calculate_transformation_score_sentinel(frame, company_name, now) ==
    IF CompanyJobs(frame, company_name) = <<>> THEN -1
    ELSE ScoreOfJobs(CompanyJobs(frame, company_name), now)

\* LeadScoringEngine.calculate_transformation_score
calculate_transformation_score(frame, company_name, now) ==
    IF CompanyJobs(frame, company_name) = <<>> THEN 0
    ELSE ScoreOfJobs(CompanyJobs(frame, company_name), now)

\* a variant whose first threshold is strict
classify_prospect_tier_strict(score) ==
    IF score > 80 THEN "Tier 1: Hot"
    ELSE IF score >= 60 THEN "Tier 2: Warm"
    ELSE IF score >= 40 THEN "Tier 3: Qualified"
    ELSE "Tier 4: Monitor"

\* LeadScoringEngine.classify_prospect_tier: the tier (the action goes with it)
classify_prospect_tier(score) ==
    IF score >= 80 THEN "Tier 1: Hot"
    ELSE IF score >= 60 THEN "Tier 2: Warm"
    ELSE IF score >= 40 THEN "Tier 3: Qualified"
    ELSE "Tier 4: Monitor"


\* the keywords found in one cell of the technologies column, lower-cased
TagHits(tags) ==
    IF tags = NaN THEN {}
    ELSE (IF "SAP S/4HANA" \in SeqToSet(tags) THEN {"s/4hana"} ELSE {})
         \cup (IF "Kyriba" \in SeqToSet(tags) THEN {"kyriba"} ELSE {})
         \cup (IF "Python" \in SeqToSet(tags) THEN {"python"} ELSE {})
         \cup (IF "API" \in SeqToSet(tags) THEN {"api"} ELSE {})
         \cup (IF "SWIFT" \in SeqToSet(tags) THEN {"swift"} ELSE {})
         \cup (IF "Power BI" \in SeqToSet(tags) THEN {"power bi"} ELSE {})

\* the keywords found in all_text: titles and technologies, joined, lower-cased
AllTextHits(jobs) ==
    UNION {(IF jobs[i].title = NaN THEN {} ELSE SubHits(jobs[i].title))
           \cup TagHits(jobs[i].technologies) : i \in 1..Len(jobs)}

\* one rule: the type, confidence and duration of its signal, the keywords
\* any of which fires it, the keyword that must be there as well ("" for
\* none), the least number of jobs
Rule(type, confidence, duration, any, also, min_jobs) ==
    [type |-> type, confidence |-> confidence, duration |-> duration,
     any |-> any, also |-> also, min_jobs |-> min_jobs]

\* the dict a rule appends (its service and description go with the type)
Signal(rule) ==
    [type |-> rule.type, confidence |-> rule.confidence, duration |-> rule.duration]

SignalRules ==
    << Rule("SAP S/4HANA Migration", "High", "18-24 months", {"s/4hana", "s4hana"}, "", 0),
       Rule("Kyriba TMS Implementation", "High", "9-12 months", {"kyriba"}, "", 0),
       Rule("GTreasury Implementation", "High", "9-12 months", {"gtreasury"}, "", 0),
       Rule("FIS TMS Implementation", "High", "9-12 months", {"fis"}, "", 0),
       Rule("Finastra Implementation", "High", "9-12 months", {"finastra"}, "", 0),
       Rule("Bloomberg AIM Implementation", "High", "9-12 months", {"bloomberg"}, "", 0),
       Rule("API Connectivity & Real-Time Treasury", "Medium", "6-9 months",
            {"connectivity", "integration", "real-time"}, "api", 0),
       Rule("Treasury Transformation Program", "High", "12-24 months",
            {"transformation", "program", "change"}, "", 3),
       Rule("ESG Treasury & Sustainable Finance", "Medium", "6-12 months",
            {"esg", "sustainable", "green", "csrd", "taxonomy"}, "", 0),
       Rule("Cash Pooling & In-House Bank Setup", "High", "6-12 months",
            {"cash pool", "in-house bank", "ihb", "centralization"}, "", 0),
       Rule("Working Capital Optimization", "Medium", "6-9 months",
            {"working capital", "cash conversion", "supply chain finance",
             "payables", "receivables"}, "", 0),
       Rule("FX & Risk Management Program", "Medium", "6-9 months",
            {"hedge", "hedging", "forex", "currency", "commodity", "derivatives"}, "", 0),
       Rule("Treasury Analytics & Reporting", "Medium", "4-6 months",
            {"analytics", "reporting", "dashboard", "visualization", "power bi",
             "tableau"}, "", 0),
       Rule("Bank Relationship Optimization", "Medium", "6-9 months",
            {"bank relationship", "banking structure", "bank connectivity", "swift"}, "", 0),
       Rule("Post-Merger Treasury Integration", "High", "12-18 months",
            {"integration", "merger", "acquisition", "consolidation",
             "harmonization"}, "", 0),
       Rule("Instant Payments Implementation", "High", "6-9 months",
            {"instant payment", "sepa instant", "real-time payment", "rtp"}, "", 0),
       Rule("Treasury Shared Service Center", "High", "12-18 months",
            {"shared service", "ssc", "center of excellence", "coe",
             "centralization"}, "", 0),
       Rule("Treasury Process Automation (RPA)", "Medium", "4-8 months",
            {"rpa", "automation", "robotic", "bot"}, "", 0),
       Rule("Treasury Policy & Governance", "Low", "3-6 months",
            {"policy", "procedure", "governance", "framework", "guidelines"}, "", 0),
       Rule("Cash Forecasting Enhancement", "Medium", "4-6 months",
            {"forecast", "liquidity", "cash projection", "planning"}, "", 0),
       Rule("Treasury Organization Redesign", "High", "6-12 months",
            {"organization", "org design", "restructure", "operating model",
             "target operating model", "tom"}, "", 0) >>

\* a variant in which no rule fires for a company with a single job
Fires_two_jobs(rule, hits, n_jobs) ==
    /\ rule.any \cap hits # {}
    /\ rule.also = "" \/ rule.also \in hits
    /\ n_jobs >= rule.min_jobs
    /\ n_jobs >= 2

Fires(rule, hits, n_jobs) ==
    /\ rule.any \cap hits # {}
    /\ rule.also = "" \/ rule.also \in hits
    /\ n_jobs >= rule.min_jobs

\* a variant that appends the signal of a rule once more when two of the
\* rule's keywords are found
SignalsOf_per_keyword(hits, n_jobs) ==
    LET fired == SelectSeq(SignalRules, LAMBDA rule : Fires(rule, hits, n_jobs))
        again == SelectSeq(fired, LAMBDA rule : Cardinality(rule.any \cap hits) >= 2)
    IN  [i \in 1..Len(fired) |-> Signal(fired[i])]
        \o [i \in 1..Len(again) |-> Signal(again[i])]

\* a variant in which the rules form one chain of alternatives: the first rule
\* that fires keeps the others from firing
SignalsOf_chained(hits, n_jobs) ==
    LET fired == SelectSeq(SignalRules, LAMBDA rule : Fires(rule, hits, n_jobs))
    IN  IF fired = <<>> THEN <<>> ELSE <<Signal(fired[1])>>

\* the signals of the rules that fire, in the order of the rules
SignalsOf(hits, n_jobs) ==
    LET fired == SelectSeq(SignalRules, LAMBDA rule : Fires(rule, hits, n_jobs))
    IN  [i \in 1..Len(fired) |-> Signal(fired[i])]

\* LeadScoringEngine.detect_transformation_signals: the signals, in order
detect_transformation_signals(frame, company_name) ==
    SignalsOf(AllTextHits(CompanyJobs(frame, company_name)),
              Len(CompanyJobs(frame, company_name)))


ActionOfTier(tier) ==
    IF tier = "Tier 1: Hot" THEN "Immediate Outreach"
    ELSE IF tier = "Tier 2: Warm" THEN "Targeted Campaign"
    ELSE IF tier = "Tier 3: Qualified" THEN "Marketing Funnel"
    ELSE "Database Only"

SetMin(S) == CHOOSE x \in S : \A y \in S : x <= y
SetMax(S) == CHOOSE x \in S : \A y \in S : x >= y

\* a variant that takes the first signal of high confidence, if there is one
primary_signal_by_confidence(signals) ==
    IF signals = <<>> THEN "None"
    ELSE IF \E i \in 1..Len(signals) : signals[i].confidence = "High"
         THEN signals[SetMin({i \in 1..Len(signals) : signals[i].confidence = "High"})].type
         ELSE signals[1].type

\* signals[0]['type'] if signals else 'None'
primary_signal(signals) ==
    IF signals = <<>> THEN "None" ELSE signals[1].type

\* the dict analyze_all_companies appends for one company
Prospect(company, score, jobs, signals, now) ==
    [company |-> company, score |-> score,
     tier |-> classify_prospect_tier(score),
     action |-> ActionOfTier(classify_prospect_tier(score)),
     total_jobs |-> Len(jobs),
     jobs_last_30_days |-> JobsLast30Days(jobs, now),
     locations |-> UniqueLocations(jobs),
     signals |-> signals, signal_count |-> Len(signals),
     primary_signal |-> primary_signal(signals),
     first_seen |-> SetMin({jobs[i].date_scraped : i \in 1..Len(jobs)}),
     last_activity |-> SetMax({jobs[i].date_scraped : i \in 1..Len(jobs)})]

RECURSIVE unique(_)
\* Series.unique(): the values in order of first appearance, NaN among them
unique(values) ==
    IF values = <<>> THEN <<>>
    ELSE LET front == unique(Front(values))
         IN  IF Last(values) \in SeqToSet(front) THEN front
             ELSE Append(front, Last(values))

RECURSIVE InsertByScore_ahead_of_ties(_, _)
\* a variant that puts p ahead of the entries of its own score
InsertByScore_ahead_of_ties(sorted, p) ==
    IF sorted = <<>> THEN <<p>>
    ELSE IF Head(sorted).score > p.score
         THEN <<Head(sorted)>> \o InsertByScore_ahead_of_ties(Tail(sorted), p)
         ELSE <<p>> \o sorted

RECURSIVE InsertByScore(_, _)
\* p goes behind every entry whose score is not smaller
InsertByScore(sorted, p) ==
    IF sorted = <<>> THEN <<p>>
    ELSE IF Head(sorted).score >= p.score
         THEN <<Head(sorted)>> \o InsertByScore(Tail(sorted), p)
         ELSE <<p>> \o sorted

RECURSIVE SortByScore(_)
\* list.sort(key=score, reverse=True): stable, highest score first
SortByScore(list) ==
    IF list = <<>> THEN <<>>
    ELSE InsertByScore(SortByScore(Front(list)), Last(list))

\* a variant that also skips a score of exactly 20
ScoreCompany_skip20(frame, company, score, now) ==
    IF score <= 20 THEN <<>>
    ELSE <<Prospect(company, score, CompanyJobs(frame, company),
                    detect_transformation_signals(frame, company), now)>>

\* one pass of the loop: the company is skipped or appended
ScoreCompany(frame, company, score, now) ==
    IF score < 20 THEN <<>>
    ELSE <<Prospect(company, score, CompanyJobs(frame, company),
                    detect_transformation_signals(frame, company), now)>>

RECURSIVE ScoreCompanies(_, _, _)
ScoreCompanies(frame, companies, now) ==
    IF companies = <<>> THEN <<>>
    ELSE ScoreCompany(frame, Head(companies),
                      calculate_transformation_score(frame, Head(companies), now), now)
         \o ScoreCompanies(frame, Tail(companies), now)

\* LeadScoringEngine.analyze_all_companies: self.company_scores afterwards
analyze_all_companies(frame, scores, now) ==
    SortByScore(scores \o ScoreCompanies(frame,
        unique([i \in 1..Len(frame) |-> frame[i].company]), now))

\* one row of prospects.csv
ProspectRow(p) ==
    [company |-> p.company, score |-> p.score, tier |-> p.tier,
     action |-> p.action, total_jobs |-> p.total_jobs,
     jobs_last_30_days |-> p.jobs_last_30_days, locations |-> p.locations,
     signal_count |-> Len(p.signals),
     primary_signal |-> primary_signal(p.signals),
     all_signals |-> [i \in 1..Len(p.signals) |-> p.signals[i].type],
     first_seen |-> p.first_seen, last_activity |-> p.last_activity]

\* LeadScoringEngine.save_prospects_csv: the file it leaves, given the file it finds
save_prospects_csv(file, scores) ==
    IF scores = <<>> THEN file
    ELSE File([i \in 1..Len(scores) |-> ProspectRow(scores[i])])


(***************************************************************************)
(* Inputs of the scoring runs: job stores the writers can leave behind.    *)
(***************************************************************************)
StoredJob(date, company, title, location, url) ==
    to_csv_row([Job(date, "StepStone.de", company, title, location, NaN, url)
                    EXCEPT !.technologies = detect_technologies(title)])

Catalogue ==
    << StoredJob(1, <<"Acme">>, <<"Interim", " ", "Treasury", " ", "Manager">>, <<"Berlin">>, "u1"),
       StoredJob(1, <<"Acme">>, <<"Contract", " ", "Treasury", " ", "Analyst">>, <<"München">>, "u2"),
       StoredJob(1, <<"Acme">>, <<"Director", " ", "Treasury", " ", "S/4HANA">>, <<"München">>, "u3"),
       StoredJob(1, <<"Acme">>, <<"Director", " ", "Cash">>, <<"Frankfurt">>, "u4"),
       StoredJob(1, <<"Acme">>, <<"Head", " ", "Treasury", " ", "API">>, <<"Frankfurt">>, "u5"),
       StoredJob(1, <<"Acme">>, <<"Treasury", " ", "Analyst", " ", "Kyriba">>, <<"Berlin">>, "u6"),
       StoredJob(1, <<"Acme">>, <<"Cash", " ", "Analyst">>, <<"Berlin">>, "u7"),
       StoredJob(2, <<"Bank">>, <<"Treasury", " ", "Manager">>, <<"Zurich">>, "u8"),
       StoredJob(2, <<"Bank">>, <<"Senior", " ", "Cash", " ", "Manager">>, <<"Zurich">>, "u9") >>

RECURSIVE PickFrom(_, _)
\* the catalogue rows numbered in S, from row i on, in catalogue order
PickFrom(i, S) ==
    IF i > Len(Catalogue) THEN <<>>
    ELSE (IF i \in S THEN <<Catalogue[i]>> ELSE <<>>) \o PickFrom(i + 1, S)

JobFiles ==
    {File(PickFrom(1, S)) :
        S \in {T \in SUBSET (1..Len(Catalogue)) : Cardinality(T) \in 1..MaxJobs}}

\* the most jobs in a store drawn from the titles below
MaxTitles == 3

\* postings of one company that differ in what their titles mention: the same
\* keyword in several titles, several keywords in one title, a keyword that
\* is only part of a longer word
TitleCatalogue ==
    << StoredJob(1, <<"Acme">>, <<"Interim", " ", "Treasury", " ", "Manager", " ",
                                  "(Kyriba)", " ", "m/w/d">>, <<"Berlin">>, "t1"),
       StoredJob(1, <<"Acme">>, <<"Interim", " ", "Cash", " ", "Manager">>, <<"Berlin">>, "t2"),
       StoredJob(1, <<"Acme">>, <<"Interim", " ", "Project", " ", "Manager">>, <<"Berlin">>, "t3"),
       StoredJob(1, <<"Acme">>, <<"Treasury", " ", "Manager", " ", "S/4HANA", " ", "ESG">>,
                 <<"Berlin">>, "t4"),
       StoredJob(1, <<"Acme">>, <<"Merger", " ", "Integration", " ", "API">>, <<"Berlin">>, "t5"),
       StoredJob(1, <<"Acme">>, <<"Python", " ", "Analyst", " ", "S/4HANA">>, <<"Berlin">>, "t6"),
       StoredJob(1, <<"Acme">>, <<"Capital", " ", "Analyst">>, <<"Berlin">>, "t7"),
       StoredJob(1, <<"Acme">>, <<"Change", " ", "Manager">>, <<"Berlin">>, "t8") >>

RECURSIVE PickTitles(_, _)
\* the title rows numbered in S, from row i on, in order
PickTitles(i, S) ==
    IF i > Len(TitleCatalogue) THEN <<>>
    ELSE (IF i \in S THEN <<TitleCatalogue[i]>> ELSE <<>>) \o PickTitles(i + 1, S)

TitleFiles ==
    {File(PickTitles(1, S)) :
        S \in {T \in SUBSET (1..Len(TitleCatalogue)) : Cardinality(T) \in 1..MaxTitles}}

\* the days on which scoring runs; the catalogue is dated 1 and 2
RunDays == {2, 32}
TimesOfDay == {0, 1}


(***************************************************************************)
(* Specification of the ingestion runs.                                    *)
(***************************************************************************)
ScoreIdle ==
    /\ df = <<>> /\ company_scores = <<>> /\ prospects = NoFile
    /\ score_pc = "idle" /\ analyzed_at = <<>> /\ last_run = <<>>

TierIdle == tier_in = <<>> /\ tier_out = <<>>
CleanIdle == clean_in = <<>> /\ clean_out = <<>>
NoLoop == [kind |-> "none", blocks |-> <<>>, location |-> <<>>]
LoopIdle == loop_in = NoLoop /\ loop_pos = 0
\* what a save has read: the file, and its header line
Found(file, columns) == [file |-> file, columns |-> columns]
RaceIdle == web_read = Found(NoFile, <<>>) /\ mail_read = Found(NoFile, <<>>)

Init == IngestInit /\ ScoreIdle /\ TierIdle /\ CleanIdle /\ LoopIdle /\ RaceIdle

Next == IngestNext /\ UNCHANGED <<score_vars, tier_vars, clean_vars, loop_vars, race_vars>>

Spec == Init /\ [][Next]_vars


(***************************************************************************)
(* The scoring runs (lead_scoring.py main()).                              *)
(***************************************************************************)
\* what a finished run leaves for the record: the frame it loaded, its
\* prospects, the clock readings of its analyze calls
RunRecord(frame, scores, at) == [df |-> frame, scores |-> scores, at |-> at]

\* main(): read_csv, to_datetime, LeadScoringEngine(df)
ScoreLoad ==
    /\ score_pc = "idle"
    /\ store.exists
    /\ df' = read_csv(store)
    /\ company_scores' = <<>>
    /\ analyzed_at' = <<>>
    /\ score_pc' = "loaded"
    /\ UNCHANGED <<prospects, last_run>>

\* engine.analyze_all_companies(), once in main(), again by any other caller
Analyze ==
    /\ score_pc \in {"loaded", "analyzed"}
    /\ Len(analyzed_at) < MaxRuns
    /\ \E tod \in TimesOfDay :
          /\ company_scores' = analyze_all_companies(df, company_scores, Now(today, tod))
          /\ analyzed_at' = Append(analyzed_at, Now(today, tod))
    /\ score_pc' = "analyzed"
    /\ UNCHANGED <<df, prospects, last_run>>

\* engine.save_prospects_csv('prospects.csv')
SaveProspects ==
    /\ score_pc = "analyzed"
    /\ prospects' = save_prospects_csv(prospects, company_scores)
    /\ score_pc' = "saved"
    /\ UNCHANGED <<df, company_scores, analyzed_at, last_run>>

\* main() returns, the engine is gone
ScoreEnd ==
    /\ score_pc = "saved"
    /\ last_run' = <<RunRecord(df, company_scores, analyzed_at)>>
    /\ df' = <<>> /\ company_scores' = <<>> /\ analyzed_at' = <<>>
    /\ score_pc' = "idle"
    /\ UNCHANGED prospects

\* time passes between two runs
Tick ==
    /\ score_pc = "idle"
    /\ \E day \in RunDays : day > today /\ today' = day

ScoreInit ==
    /\ store \in JobFiles /\ header = Columns
    /\ web_pc = "idle" /\ web_jobs = <<>>
    /\ mail_pc = "idle" /\ mail_jobs = <<>>
    /\ today \in RunDays
    /\ prev_save = NoSave
    /\ ScoreIdle /\ TierIdle /\ CleanIdle /\ LoopIdle /\ RaceIdle

ScoreNext ==
    \/ ScoreLoad /\ UNCHANGED <<ingest_vars, tier_vars, clean_vars, loop_vars, race_vars>>
    \/ Analyze /\ UNCHANGED <<ingest_vars, tier_vars, clean_vars, loop_vars, race_vars>>
    \/ SaveProspects /\ UNCHANGED <<ingest_vars, tier_vars, clean_vars, loop_vars, race_vars>>
    \/ ScoreEnd /\ UNCHANGED <<ingest_vars, tier_vars, clean_vars, loop_vars, race_vars>>
    \/ Tick /\ UNCHANGED <<store, header, web_pc, web_jobs, mail_pc, mail_jobs, prev_save,
                           score_vars, tier_vars, clean_vars, loop_vars, race_vars>>

SpecScore == ScoreInit /\ [][ScoreNext]_vars

\* the same engine over the stores drawn from the titles, which are dated 1
TextInit ==
    /\ store \in TitleFiles /\ header = Columns
    /\ web_pc = "idle" /\ web_jobs = <<>>
    /\ mail_pc = "idle" /\ mail_jobs = <<>>
    /\ today = 2
    /\ prev_save = NoSave
    /\ ScoreIdle /\ TierIdle /\ CleanIdle /\ LoopIdle /\ RaceIdle

\* the runs of one day
TextNext ==
    \/ ScoreLoad /\ UNCHANGED <<ingest_vars, tier_vars, clean_vars, loop_vars, race_vars>>
    \/ Analyze /\ UNCHANGED <<ingest_vars, tier_vars, clean_vars, loop_vars, race_vars>>
    \/ SaveProspects /\ UNCHANGED <<ingest_vars, tier_vars, clean_vars, loop_vars, race_vars>>
    \/ ScoreEnd /\ UNCHANGED <<ingest_vars, tier_vars, clean_vars, loop_vars, race_vars>>

SpecText == TextInit /\ [][TextNext]_vars


(***************************************************************************)
(* classify_prospect_tier on its own: two scores, classified in turn.      *)
(***************************************************************************)
MaxScore == 100

\* one call of classify_prospect_tier, on the next score waiting
ClassifyTier ==
    /\ Len(tier_out) < Len(tier_in)
    /\ tier_out' = Append(tier_out, classify_prospect_tier(tier_in[Len(tier_out) + 1]))
    /\ UNCHANGED tier_in

TierInit ==
    /\ IngestInit /\ ScoreIdle
    /\ tier_in \in (0..MaxScore) \X (0..MaxScore)
    /\ tier_out = <<>>
    /\ CleanIdle /\ LoopIdle /\ RaceIdle

TierNext == ClassifyTier /\ UNCHANGED <<ingest_vars, score_vars, clean_vars, loop_vars, race_vars>>

SpecTier == TierInit /\ [][TierNext]_vars

(***************************************************************************)
(* Company cleaning on its own: a name goes through the cleaner of each    *)
(* writer, and the result through the same cleaner again, as on the        *)
(* Jobs.ch path, where _extract_company_jobs_ch cleans the candidate and   *)
(* scrape_jobs_ch cleans what it returns.                                  *)
(***************************************************************************)
\* the words and annotations a name is made of; " " is extra white space
CompanyTokens == {"Acme", "GmbH", "AG", " ", "(DE)", "hiring", "now", "Promoted"}

\* None, the empty string, and the names of up to MaxNameLen tokens
CompanyInputs == {None, <<>>} \cup SeqsUpTo(CompanyTokens, MaxNameLen)

\* one call of _clean_company of each writer, on the name or on what the
\* call before returned
CleanCompany ==
    /\ Len(clean_out) < MaxCleanings
    /\ clean_out' = Append(clean_out,
           IF clean_out = <<>>
           THEN [web |-> Web_clean_company(clean_in),
                 mail |-> Mail_clean_company(clean_in)]
           ELSE [web |-> Web_clean_company(Last(clean_out).web),
                 mail |-> Mail_clean_company(Last(clean_out).mail)])
    /\ UNCHANGED clean_in

CleanInit ==
    /\ IngestInit /\ ScoreIdle /\ TierIdle
    /\ clean_in \in CompanyInputs
    /\ clean_out = <<>>
    /\ LoopIdle /\ RaceIdle

CleanNext ==
    CleanCompany /\ UNCHANGED <<ingest_vars, score_vars, tier_vars, loop_vars, race_vars>>

SpecClean == CleanInit /\ [][CleanNext]_vars

(***************************************************************************)
(* One loop over the blocks of one page or one mailbox: the cards of a     *)
(* StepStone search, the cards of a Jobs.ch search, the messages of        *)
(* process_all_emails.                                                     *)
(***************************************************************************)
Loop(kind, blocks, location) == [kind |-> kind, blocks |-> blocks, location |-> location]

\* a Jobs.ch card whose parsing raises
JobsChCardRaising ==
    [JobsChCard(None, <<>>, <<>>, None, None, "") EXCEPT !.raises = TRUE]

LoopInputs ==
    {Loop("stepstone", b, l) :
        b \in SeqsUpTo(StepstoneCards, MaxBlocks), l \in StepstoneLocations}
    \cup {Loop("jobs_ch", b, <<>>) :
             b \in SeqsUpTo(JobsChCards \cup {JobsChCardRaising}, MaxBlocks)}
    \cup {Loop("email", b, <<>>) : b \in SeqsUpTo(Emails, MaxBlocks)}

\* scrape_stepstone_de: the next card of the page
LoopStepstoneCard ==
    /\ loop_in.kind = "stepstone"
    /\ loop_pos < Len(loop_in.blocks)
    /\ web_jobs' = web_jobs \o stepstone_card(loop_in.blocks[loop_pos + 1],
                                               loop_in.location, today)
    /\ loop_pos' = loop_pos + 1
    /\ UNCHANGED <<store, header, web_pc, mail_pc, mail_jobs, today, prev_save, loop_in>>

\* scrape_jobs_ch: the cards of the page, then the detail pages, then
\* self.jobs.extend(batch)
LoopJobsChSearch ==
    /\ loop_in.kind = "jobs_ch"
    /\ loop_pos = 0
    /\ LET batch == jobs_ch_cards(loop_in.blocks, today)
       IN  \E pages \in [1..Len(batch) -> DetailPages] :
              web_jobs' = web_jobs \o enrich_jobs_ch_from_detail_pages(batch, pages, 0, 8)
    /\ loop_pos' = Len(loop_in.blocks)
    /\ UNCHANGED <<store, header, web_pc, mail_pc, mail_jobs, today, prev_save, loop_in>>

\* process_all_emails: the next message
LoopEmail ==
    /\ loop_in.kind = "email"
    /\ loop_pos < Len(loop_in.blocks)
    /\ mail_jobs' = mail_jobs \o process_email(loop_in.blocks[loop_pos + 1], today)
    /\ loop_pos' = loop_pos + 1
    /\ UNCHANGED <<store, header, web_pc, web_jobs, mail_pc, today, prev_save, loop_in>>

LoopInit ==
    /\ IngestInit /\ ScoreIdle /\ TierIdle /\ CleanIdle /\ RaceIdle
    /\ loop_in \in LoopInputs
    /\ loop_pos = 0

LoopNext ==
    \/ LoopStepstoneCard /\ UNCHANGED <<score_vars, tier_vars, clean_vars, race_vars>>
    \/ LoopJobsChSearch /\ UNCHANGED <<score_vars, tier_vars, clean_vars, race_vars>>
    \/ LoopEmail /\ UNCHANGED <<score_vars, tier_vars, clean_vars, race_vars>>

SpecLoop == LoopInit /\ [][LoopNext]_vars

(***************************************************************************)
(* Two runs at once, one of scraper.py and one of email_parser.py, over    *)
(* the same treasury_jobs.csv.  Each has collected its batch; its          *)
(* save_to_csv reads the file (os.path.exists, pd.read_csv) and writes it  *)
(* (to_csv) in two steps, and nothing keeps the other run from stepping in *)
(* between.                                                                *)
(***************************************************************************)
WebBatches ==
    ({stepstone_card(c, l, 0) : c \in StepstoneCards, l \in StepstoneLocations}
        \cup {jobs_ch_card(c, 0) : c \in JobsChCards}) \ {<<>>}

MailBatches == {process_all_emails_finish(process_email(e, 0)) : e \in Emails} \ {<<>>}

\* no store yet, or the store one earlier run has left
RaceStores ==
    {Found(NoFile, <<>>)}
    \cup {Found(Web_save_to_csv(NoFile, b), Web_save_columns(NoFile, <<>>, b)) :
             b \in WebBatches}
    \cup {Found(Mail_save_to_csv(NoFile, b), Mail_save_columns(NoFile, <<>>, b)) :
             b \in MailBatches}

\* a variant that reads the file again in the step that writes it
RaceMailWrite_reading ==
    /\ mail_pc = "read"
    /\ store' = Mail_save_to_csv(store, mail_jobs)
    /\ header' = Mail_save_columns(store, header, mail_jobs)
    /\ mail_pc' = "saved"
    /\ UNCHANGED <<web_pc, web_jobs, mail_jobs, today, prev_save, web_read, mail_read>>

\* scraper.save_to_csv: os.path.exists(filename), pd.read_csv(filename)
RaceWebRead ==
    /\ web_pc = "save"
    /\ web_read' = Found(store, header)
    /\ web_pc' = "read"
    /\ UNCHANGED <<store, header, web_jobs, mail_pc, mail_jobs, today, prev_save, mail_read>>

\* scraper.save_to_csv: concat, drop_duplicates, to_csv(filename)
RaceWebWrite ==
    /\ web_pc = "read"
    /\ store' = Web_save_to_csv(web_read.file, web_jobs)
    /\ header' = Web_save_columns(web_read.file, web_read.columns, web_jobs)
    /\ web_pc' = "saved"
    /\ UNCHANGED <<web_jobs, mail_pc, mail_jobs, today, prev_save, web_read, mail_read>>

\* parser.save_to_csv: os.path.exists(filename), pd.read_csv(filename)
RaceMailRead ==
    /\ mail_pc = "save"
    /\ mail_read' = Found(store, header)
    /\ mail_pc' = "read"
    /\ UNCHANGED <<store, header, web_pc, web_jobs, mail_jobs, today, prev_save, web_read>>

\* parser.save_to_csv: concat, drop_duplicates, to_csv(filename)
RaceMailWrite ==
    /\ mail_pc = "read"
    /\ store' = Mail_save_to_csv(mail_read.file, mail_jobs)
    /\ header' = Mail_save_columns(mail_read.file, mail_read.columns, mail_jobs)
    /\ mail_pc' = "saved"
    /\ UNCHANGED <<web_pc, web_jobs, mail_jobs, today, prev_save, web_read, mail_read>>

RaceInit ==
    /\ \E found \in RaceStores : store = found.file /\ header = found.columns
    /\ web_pc = "save" /\ web_jobs \in WebBatches
    /\ mail_pc = "save" /\ mail_jobs \in MailBatches
    /\ today = 0
    /\ prev_save = NoSave
    /\ ScoreIdle /\ TierIdle /\ CleanIdle /\ LoopIdle /\ RaceIdle

RaceNext ==
    \/ RaceWebRead /\ UNCHANGED <<score_vars, tier_vars, clean_vars, loop_vars>>
    \/ RaceWebWrite /\ UNCHANGED <<score_vars, tier_vars, clean_vars, loop_vars>>
    \/ RaceMailRead /\ UNCHANGED <<score_vars, tier_vars, clean_vars, loop_vars>>
    \/ RaceMailWrite /\ UNCHANGED <<score_vars, tier_vars, clean_vars, loop_vars>>

SpecRace == RaceInit /\ [][RaceNext]_vars


(***************************************************************************)
(* Properties of the canonical store.                                      *)
(***************************************************************************)
\* the batch a writer hands to save_to_csv, as the rows it writes
Written(writer) ==
    IF writer = "web" THEN to_csv(WithTechnologies(web_jobs)).rows
    ELSE IF writer = "mail" THEN to_csv(mail_jobs).rows
    ELSE <<>>

JustSaved == web_pc = "saved" \/ mail_pc = "saved"
SavedAgain == web_pc = "saved_again" \/ mail_pc = "saved_again"

\* identity key: the url when it is not empty, else (source, company, title, location)
SameIdentity(r1, r2) ==
    IF r1.url # "" /\ r2.url # "" THEN r1.url = r2.url
    ELSE /\ r1.url = "" /\ r2.url = ""
         /\ KeyOf(r1, {"source", "company", "title", "location"})
            = KeyOf(r2, {"source", "company", "title", "location"})

\* C3: saving the unchanged batch a second time leaves the set of stored
\* records as it was after the first save, for either writer.
C3_SaveIsIdempotent == SavedAgain => Rows(store) = Rows(prev_save.before)

\* C4: every record of the canonical store has a non-empty title.
C4_TitleNonEmpty == \A r \in Rows(store) : r.title # <<>>

\* C5: no two rows of the canonical store have the same identity key.
C5_UniqueIdentity ==
    \A i, j \in 1..Len(store.rows) :
        i # j => ~SameIdentity(store.rows[i], store.rows[j])

\* C6: after a merge, a stored record whose identity key an incoming record
\* has is gone, and the (last) incoming record of that key is in the store with
\* all of its field values.
C6_LastWriteWins ==
    JustSaved =>
        LET batch == Written(prev_save.writer)
        IN  \A s \in Rows(prev_save.before) :
              \A k \in 1..Len(batch) :
                 (/\ SameIdentity(s, batch[k])
                  /\ \A m \in (k + 1)..Len(batch) : ~SameIdentity(batch[m], batch[k]))
                 => /\ batch[k] \in Rows(store)
                    /\ (s # batch[k] => s \notin Rows(store))


(***************************************************************************)
(* Properties of the scoring engine.                                       *)
(***************************************************************************)
\* the company names of a frame, the missing one among them
Companies(frame) == {frame[i].company : i \in 1..Len(frame)}

\* a name no job of the catalogue carries
Nobody == <<"Nobody">>

\* the engine has made its first analyze call and no other
FreshlyAnalyzed == score_pc = "analyzed" /\ Len(analyzed_at) = 1

Listed(scores, company) == {i \in 1..Len(scores) : scores[i].company = company}

\* C1: for every job store and every company name the score is an integer
\* from 0 to 100, and it is 0 for a company without jobs
C1_ScoreInRange ==
    \A now \in SeqToSet(analyzed_at) :
        \A company \in Companies(df) \cup {Nobody, NaN} :
            /\ calculate_transformation_score(df, company, now) \in 0..100
            /\ CompanyJobs(df, company) = <<>>
                  => calculate_transformation_score(df, company, now) = 0

\* a run in which a company reaches the full 100 points
C1_Witness ==
    /\ FreshlyAnalyzed
    /\ \E i \in 1..Len(company_scores) : company_scores[i].score = 100
    /\ calculate_transformation_score(df, Nobody, analyzed_at[1]) = 0

\* C2: for a fixed job store, two scoring runs give every company the same
\* score and the same tier, whatever the time of each run
C2_Deterministic ==
    (analyzed_at # <<>> /\ last_run # <<>> /\ last_run[1].df = df) =>
        \A company \in Companies(df) :
            /\ calculate_transformation_score(df, company, Last(analyzed_at))
                 = calculate_transformation_score(df, company, Last(last_run[1].at))
            /\ classify_prospect_tier(
                   calculate_transformation_score(df, company, Last(analyzed_at)))
                 = classify_prospect_tier(
                       calculate_transformation_score(df, company, Last(last_run[1].at)))

\* C7: after analyze_all_companies on a fresh engine the prospect list holds
\* exactly the companies of the store that score at least 20, each once
C7_ExactlyTheProspects ==
    FreshlyAnalyzed =>
        /\ \A company \in Companies(df) :
              IF calculate_transformation_score(df, company, analyzed_at[1]) >= 20
              THEN Cardinality(Listed(company_scores, company)) = 1
              ELSE Listed(company_scores, company) = {}
        /\ \A i \in 1..Len(company_scores) :
              /\ company_scores[i].company \in Companies(df)
              /\ company_scores[i].score
                   = calculate_transformation_score(df, company_scores[i].company,
                                                    analyzed_at[1])

\* a run that lists one company and drops another that scores 15
C7_Witness ==
    /\ FreshlyAnalyzed
    /\ company_scores # <<>>
    /\ \E company \in Companies(df) :
          /\ calculate_transformation_score(df, company, analyzed_at[1]) = 15
          /\ Listed(company_scores, company) = {}

\* the companies the latest analyze call of this engine found to be prospects
LatestProspects ==
    {company \in Companies(df) :
        calculate_transformation_score(df, company, Last(analyzed_at)) >= 20}

\* C8: after a scoring run the prospects file holds exactly the prospects that
\* run computed: each of them once, no row of an earlier run or call
C8_ProspectsReplaced ==
    score_pc = "saved" =>
        /\ \A company \in LatestProspects :
              Cardinality(Listed(prospects.rows, company)) = 1
        /\ \A i \in 1..Len(prospects.rows) :
              prospects.rows[i].company \in LatestProspects

\* C10: a company with 6 jobs in the last 30 days, the SAP S/4HANA and Kyriba
\* tags, no API or Python tag, 2 interim or contract titles, 2 Director or
\* Head titles and 3 locations scores 95 and is Tier 1
TitlesWith(jobs, kws) ==
    {i \in 1..Len(jobs) : jobs[i].title # NaN /\ SubHits(jobs[i].title) \cap kws # {}}

WorkedExample(jobs, now) ==
    /\ JobsLast30Days(jobs, now) = 6
    /\ {"SAP S/4HANA", "Kyriba"} \subseteq AllTech(jobs)
    /\ AllTech(jobs) \cap {"API", "Python"} = {}
    /\ Cardinality(TitlesWith(jobs, {"interim", "contract"})) = 2
    /\ Cardinality(TitlesWith(jobs, {"director", "head"})) = 2
    /\ UniqueLocations(jobs) = 3

C10_WorkedExampleScores95 ==
    FreshlyAnalyzed =>
        \A company \in Companies(df) :
            WorkedExample(CompanyJobs(df, company), analyzed_at[1]) =>
                \E i \in 1..Len(company_scores) :
                    /\ company_scores[i].company = company
                    /\ company_scores[i].score = 95
                    /\ company_scores[i].tier = "Tier 1: Hot"


(***************************************************************************)
(* Properties of the tier classification.                                  *)
(***************************************************************************)
\* tiers in rising order
TierRank(tier) ==
    IF tier = "Tier 1: Hot" THEN 4
    ELSE IF tier = "Tier 2: Warm" THEN 3
    ELSE IF tier = "Tier 3: Qualified" THEN 2
    ELSE IF tier = "Tier 4: Monitor" THEN 1
    ELSE 0

\* C9: a score of 80 or more is Tier 1 Hot, 60..79 Tier 2 Warm, 40..59 Tier 3
\* Qualified, less than 40 Tier 4 Monitor; a higher score never gets a lower tier
C9_TierThresholds ==
    /\ \A i \in 1..Len(tier_out) :
          /\ tier_out[i] = "Tier 1: Hot" <=> tier_in[i] \in 80..100
          /\ tier_out[i] = "Tier 2: Warm" <=> tier_in[i] \in 60..79
          /\ tier_out[i] = "Tier 3: Qualified" <=> tier_in[i] \in 40..59
          /\ tier_out[i] = "Tier 4: Monitor" <=> tier_in[i] \in 0..39
    /\ (Len(tier_out) = 2 /\ tier_in[1] <= tier_in[2])
          => TierRank(tier_out[1]) <= TierRank(tier_out[2])

\* the scores 79 and 80 classified one after the other
C9_Witness ==
    /\ tier_in = <<79, 80>>
    /\ tier_out = <<"Tier 2: Warm", "Tier 1: Hot">>


(***************************************************************************)
(* Properties of the score factors.                                        *)
(***************************************************************************)
\* the jobs dated no more than 30 days before the day of the run
DatedInTrailing30Days(jobs, now) ==
    {i \in 1..Len(jobs) : jobs[i].date_scraped >= now.day - 30}

\* 0 -> 0, 1 -> 10, 2 -> 15, 3-4 -> 20, >= 5 -> 25
VelocityTable(n) ==
    IF n = 0 THEN 0 ELSE IF n = 1 THEN 10 ELSE IF n = 2 THEN 15
    ELSE IF n \in 3..4 THEN 20 ELSE 25

\* C11: the hiring-velocity factor is 0, 10, 15, 20 (3 or 4) or 25 (5 and more)
\* for the number of the company's jobs dated within the trailing 30 days, a
\* job dated exactly 30 days before the run date being inside the window
C11_VelocityFactor ==
    \A i \in 1..Len(analyzed_at) :
        \A company \in Companies(df) :
            VelocityPoints(JobsLast30Days(CompanyJobs(df, company), analyzed_at[i]))
              = VelocityTable(Cardinality(
                    DatedInTrailing30Days(CompanyJobs(df, company), analyzed_at[i])))

\* the hits of the keywords in the titles, one for every title and every
\* keyword the title contains
KeywordHitsPerTitle(jobs, kws) ==
    {<<i, kw>> \in (1..Len(jobs)) \X kws :
        jobs[i].title # NaN /\ kw \in SubHits(jobs[i].title)}

\* 0 -> 0, 1 -> 15, >= 2 -> 25
JobTypeTable(n) == IF n = 0 THEN 0 ELSE IF n = 1 THEN 15 ELSE 25

\* C12: the job-type factor is 0, 15 or 25 as the number of interim, freelance,
\* project, contract and consultant hits over the company's titles is 0, 1 or
\* at least 2, every title that contains a keyword contributing a hit
C12_JobTypeFactor ==
    \A company \in Companies(df) :
        JobTypePoints(Cardinality(TitleHits(CompanyJobs(df, company), interim_keywords)))
          = JobTypeTable(Cardinality(
                KeywordHitsPerTitle(CompanyJobs(df, company), interim_keywords)))

\* the jobs whose title mentions the technology
Mentioning(jobs, tag) ==
    {i \in 1..Len(jobs) :
        jobs[i].title # NaN /\ tag \in SeqToSet(detect_technologies(jobs[i].title))}

\* 15 for SAP S/4HANA, 10 for Kyriba, 5 for API or Python, each at most once
TechTable(jobs) ==
    (IF Mentioning(jobs, "SAP S/4HANA") # {} THEN 15 ELSE 0)
    + (IF Mentioning(jobs, "Kyriba") # {} THEN 10 ELSE 0)
    + (IF Mentioning(jobs, "API") \cup Mentioning(jobs, "Python") # {} THEN 5 ELSE 0)

\* C13: the technology factor is 15 if some job of the company mentions SAP
\* S/4HANA, plus 10 if some job mentions Kyriba, plus 5 if some job mentions
\* API or Python, each counted once however many jobs mention it; it is one
\* of 0, 5, 10, 15, 20, 25, 30
C13_TechFactor ==
    \A company \in Companies(df) :
        /\ TechPoints(AllTech(CompanyJobs(df, company))) = TechTable(CompanyJobs(df, company))
        /\ TechPoints(AllTech(CompanyJobs(df, company))) \in {0, 5, 10, 15, 20, 25, 30}

\* an analyzed company with two S/4HANA jobs, a Kyriba job and a Python job:
\* all three conditions count, each once
C13_Witness ==
    /\ score_pc = "analyzed"
    /\ \E company \in Companies(df) :
          /\ Cardinality(Mentioning(CompanyJobs(df, company), "SAP S/4HANA")) = 2
          /\ Mentioning(CompanyJobs(df, company), "Kyriba") # {}
          /\ Mentioning(CompanyJobs(df, company), "Python") # {}
          /\ TechPoints(AllTech(CompanyJobs(df, company))) = 30


(* Properties of the signals. *)

\* the positions of the signals of the given type
OfType(signals, type) == {i \in 1..Len(signals) : signals[i].type = type}

\* the types of the signals, in their order
TypesOf(signals) == [i \in 1..Len(signals) |-> signals[i].type]

\* no type stands twice
NoRepeat(types) == \A i, j \in 1..Len(types) : types[i] = types[j] => i = j

\* C14: for every company and job store, the list returned by
\* detect_transformation_signals has no two signals of the same type
C14_OneSignalPerType ==
    \A company \in Companies(df) \cup {Nobody} :
        NoRepeat(TypesOf(detect_transformation_signals(df, company)))

\* a listed prospect whose text holds two keywords of one rule, "merger" and
\* "integration", and who carries that rule's signal once
C14_Witness ==
    /\ score_pc = "analyzed"
    /\ \E i \in 1..Len(company_scores) :
          /\ {"merger", "integration"}
                \subseteq AllTextHits(CompanyJobs(df, company_scores[i].company))
          /\ Cardinality(OfType(company_scores[i].signals,
                                "Post-Merger Treasury Integration")) = 1

\* every keyword some rule looks for
RuleKeywords ==
    UNION {SignalRules[k].any \cup ({SignalRules[k].also} \ {""}) : k \in 1..Len(SignalRules)}

\* the keywords of the rules found in the company's text
Matching(frame, company) == AllTextHits(CompanyJobs(frame, company)) \cap RuleKeywords

\* the types of the rules whose own predicate holds on a text of a company
\* with so many jobs
TypesFiring(hits, n_jobs) ==
    {SignalRules[k].type :
        k \in {n \in 1..Len(SignalRules) : Fires(SignalRules[n], hits, n_jobs)}}

\* the types of the rules whose own predicate holds on the company's text
TypesHolding(frame, company) ==
    TypesFiring(AllTextHits(CompanyJobs(frame, company)), Len(CompanyJobs(frame, company)))

\* the two signals of a text that matches "S/4HANA" and "ESG" only
S4AndESG ==
    << [type |-> "SAP S/4HANA Migration", confidence |-> "High",
        duration |-> "18-24 months"],
       [type |-> "ESG Treasury & Sustainable Finance",
        confidence |-> "Medium", duration |-> "6-12 months"] >>

\* the signals are those of the rules that hold, and the two named ones when
\* the text matches "S/4HANA" and "ESG" only
AsTheRulesHold(signals, holding, matching) ==
    /\ SeqToSet(TypesOf(signals)) = holding
    /\ matching = {"s/4hana", "esg"} => signals = S4AndESG

\* C15: the rules are independent: the signals emitted for a company are
\* those of the rules whose own predicate holds on its text, no rule adding
\* or suppressing another; a text whose only matches are "S/4HANA" and "ESG"
\* yields exactly two signals, each with its own confidence and duration
C15_RulesIndependent ==
    \A company \in Companies(df) \cup {Nobody} :
        AsTheRulesHold(detect_transformation_signals(df, company),
                       TypesHolding(df, company), Matching(df, company))

\* a listed prospect whose text matches "S/4HANA" and "ESG" and nothing else,
\* with its two signals
C15_Witness ==
    /\ score_pc = "analyzed"
    /\ \E i \in 1..Len(company_scores) :
          /\ Matching(df, company_scores[i].company) = {"s/4hana", "esg"}
          /\ company_scores[i].signal_count = 2
          /\ company_scores[i].signals[1].confidence = "High"
          /\ company_scores[i].signals[2].confidence = "Medium"

\* the place of a signal type in the order in which the rules are evaluated
RulePos(type) == CHOOSE k \in 1..Len(SignalRules) : SignalRules[k].type = type

\* the types stand in the order of their rules
InRuleOrder(types) ==
    \A i, j \in 1..Len(types) : i < j => RulePos(types[i]) < RulePos(types[j])

\* the first of the types, 'None' when there is none
FirstOrNone(types) == IF Len(types) = 0 THEN "None" ELSE types[1]

\* C16: the signals of a company stand in the fixed order in which the rules
\* are evaluated, and the primary_signal of a prospect, in the list and in
\* prospects.csv, is the type of the first of them, 'None' when no rule
\* fired, whatever the confidences
C16_PrimaryIsFirstInRuleOrder ==
    /\ \A company \in Companies(df) :
          InRuleOrder(TypesOf(detect_transformation_signals(df, company)))
    /\ \A k \in 1..Len(company_scores) :
          /\ company_scores[k].signals
                = detect_transformation_signals(df, company_scores[k].company)
          /\ company_scores[k].primary_signal
                = FirstOrNone(TypesOf(company_scores[k].signals))
    /\ score_pc = "saved" =>
          \A k \in 1..Len(prospects.rows) :
              /\ InRuleOrder(prospects.rows[k].all_signals)
              /\ prospects.rows[k].primary_signal
                    = FirstOrNone(prospects.rows[k].all_signals)

\* prospects.csv holds a prospect whose first signal is of medium confidence
\* and is followed by one of high confidence
C16_Witness ==
    /\ score_pc = "saved"
    /\ \E k \in 1..Len(prospects.rows) :
          /\ prospects.rows[k].primary_signal = "API Connectivity & Real-Time Treasury"
          /\ company_scores[k].signals[1].confidence = "Medium"
          /\ company_scores[k].signals[2].confidence = "High"


(* Properties of the extraction and of the save step. *)

\* C17: a card of StepStone or Jobs.ch yields a record only if its title and
\* its company both resolve to something other than the sentinel: no record
\* with the company "Unknown" is in the batch of a web run
C17_NoSentinelInBatch ==
    \A i \in 1..Len(web_jobs) :
        web_jobs[i].title # Unknown /\ web_jobs[i].company # Unknown

\* the messages of the mailbox from which the parser extracts the record
EmailsYielding(job) ==
    {email \in Emails :
        \E k \in 1..Len(process_email(email, job.date_scraped)) :
            process_email(email, job.date_scraped)[k] = job}

\* C18: when the subject of an email names a country, directly or through
\* the alias table, every record extracted from that email has that country,
\* whatever the last comma-separated token of its location
C18_SubjectCountryFirst ==
    \A i \in 1..Len(mail_jobs) :
        \A email \in EmailsYielding(mail_jobs[i]) :
            infer_country_from_subject(email.subject) # None
               => mail_jobs[i].country = infer_country_from_subject(email.subject)

\* the batch of the writer that saved last
BatchOf(writer) ==
    IF writer = "web" THEN web_jobs ELSE IF writer = "mail" THEN mail_jobs ELSE <<>>

\* C19: when the batch of a run is empty, save_to_csv of either writer leaves
\* the store as it found it: no record added, removed or rewritten, and no
\* store created
C19_EmptyBatchLeavesStore ==
    (JustSaved \/ SavedAgain) /\ BatchOf(prev_save.writer) = <<>>
        => store = prev_save.before

\* the scraper has saved an empty batch over a store that holds records
C19_Witness ==
    /\ web_pc = "saved" /\ web_jobs = <<>>
    /\ prev_save.writer = "web"
    /\ prev_save.before.exists /\ prev_save.before.rows # <<>>
    /\ store = prev_save.before

\* main() of either writer takes its one save_to_csv step
SaveStep ==
    \/ web_pc = "save" /\ web_pc' = "saved"
    \/ mail_pc = "save" /\ mail_pc' = "saved"

\* save_to_csv is called once more on the batch of a finished run
ReingestStep ==
    \/ web_pc = "saved" /\ web_pc' = "saved_again"
    \/ mail_pc = "saved" /\ mail_pc' = "saved_again"

\* a run raises before it has written
AbortStep == web_pc' = "failed" \/ mail_pc' = "failed"

\* a run is still collecting its batch
Extracting == web_pc \in {"stepstone", "jobs_ch"} \/ mail_pc \in {"fetch", "parse"}

\* C20: within one run the store is modified at most once, by the single
\* read-merge-write step taken when all extraction of the run is over; a run
\* that raises before that step leaves the store as it was before the run
C20_OneWriteAfterExtraction ==
    [][/\ ~ReingestStep /\ store' # store => SaveStep
       /\ Extracting \/ AbortStep => store' = store
       /\ SaveStep => web_jobs' = web_jobs /\ mail_jobs' = mail_jobs
       /\ web_pc \in {"saved", "saved_again", "failed"}
             => web_pc' \in {"saved_again", "idle"} /\ web_jobs' \in {web_jobs, <<>>}
       /\ mail_pc \in {"saved", "saved_again", "failed"}
             => mail_pc' \in {"saved_again", "idle"} /\ mail_jobs' \in {mail_jobs, <<>>}
      ]_vars

\* a run has raised with a batch in hand over a store that holds records
C20_Witness ==
    /\ web_pc = "failed" /\ web_jobs # <<>>
    /\ store.exists /\ store.rows # <<>>
    /\ prev_save = NoSave


(* Properties of company cleaning. *)

\* C24: company cleaning returns the sentinel "Unknown" whenever the cleaned
\* string is empty, in the web normalizer and in the email normalizer; it
\* never returns the empty string
C24_CleanNeverEmpty ==
    \A i \in 1..Len(clean_out) :
        clean_out[i].web # <<>> /\ clean_out[i].mail # <<>>

\* C28: company cleaning is idempotent: a name cleaned twice is the name
\* cleaned once, for the cleaner of either writer
C28_CleanIdempotent ==
    \A i \in 2..Len(clean_out) : clean_out[i] = clean_out[1]


(* Further properties of the score. *)

\* the jobs without the one in place i
Without(jobs, i) == SubSeq(jobs, 1, i - 1) \o SubSeq(jobs, i + 1, Len(jobs))

\* no job of the company can be taken away to the gain of the score
NoJobLowers(jobs, now) ==
    \A i \in 1..Len(jobs) : ScoreOfJobs(Without(jobs, i), now) <= ScoreOfJobs(jobs, now)

\* C27: at a fixed evaluation time, one more job record of a company never
\* lowers the score of that company
C27_ScoreMonotone ==
    FreshlyAnalyzed =>
        \A company \in Companies(df) :
            /\ NoJobLowers(CompanyJobs(df, company), analyzed_at[1])
            /\ calculate_transformation_score(df, company, analyzed_at[1])
                  = ScoreOfJobs(CompanyJobs(df, company), analyzed_at[1])

\* a company of five jobs or more that one job the fewer would leave with a
\* lower score
C27_Witness ==
    /\ FreshlyAnalyzed
    /\ \E company \in Companies(df) :
          /\ Len(CompanyJobs(df, company)) >= 5
          /\ \E i \in 1..Len(CompanyJobs(df, company)) :
                ScoreOfJobs(Without(CompanyJobs(df, company), i), analyzed_at[1])
                  < calculate_transformation_score(df, company, analyzed_at[1])

\* the factor's points for a technology go with the signal of that technology
TechAgrees(all_tech, types) ==
    /\ "SAP S/4HANA" \in all_tech => "SAP S/4HANA Migration" \in types
    /\ "Kyriba" \in all_tech => "Kyriba TMS Implementation" \in types

\* C29: whenever the technology factor awards the 15 points for SAP S/4HANA
\* the signals of the company hold "SAP S/4HANA Migration", and whenever it
\* awards the 10 points for Kyriba they hold "Kyriba TMS Implementation"
C29_TechPointsHaveSignals ==
    \A company \in Companies(df) :
        TechAgrees(AllTech(CompanyJobs(df, company)),
                   SeqToSet(TypesOf(detect_transformation_signals(df, company))))

\* a listed prospect that has the points for both technologies and both
\* signals
C29_Witness ==
    /\ score_pc = "analyzed"
    /\ \E k \in 1..Len(company_scores) :
          /\ {"SAP S/4HANA", "Kyriba"}
                \subseteq AllTech(CompanyJobs(df, company_scores[k].company))
          /\ TechPoints(AllTech(CompanyJobs(df, company_scores[k].company))) >= 25
          /\ {"SAP S/4HANA Migration", "Kyriba TMS Implementation"}
                \subseteq SeqToSet(TypesOf(company_scores[k].signals))

\* ---------------------------------------------------------------------------
\* Properties of the prospect list
\* ---------------------------------------------------------------------------

\* the row of the frame where the company appears first
FirstRowOf(frame, company) ==
    CHOOSE i \in 1..Len(frame) :
        /\ frame[i].company = company
        /\ \A j \in 1..(i - 1) : frame[j].company # company

\* highest score first, and equal scores in the order of the frame
OrderedByScore(frame, list) ==
    \A i, j \in 1..Len(list) :
        i < j => \/ list[i].score > list[j].score
                 \/ /\ list[i].score = list[j].score
                    /\ FirstRowOf(frame, list[i].company)
                           < FirstRowOf(frame, list[j].company)

Unmatched(s, batch) == \A k \in 1..Len(batch) : ~SameIdentity(s, batch[k])

\* C26: a merge removes only what the batch replaces: every stored record
\* whose identity key (url if non-empty, else source/company/title/location)
\* matches no record of the incoming batch is still in the store, field for
\* field, after save_to_csv of either writer.
C26_MergeKeepsOthers ==
    JustSaved =>
        \A s \in Rows(prev_save.before) :
            Unmatched(s, Written(prev_save.writer)) => s \in Rows(store)

\* ---------------------------------------------------------------------------
\* Failures inside a loop over blocks
\* ---------------------------------------------------------------------------

\* the records one block yields when it is the only block of its loop, before
\* any detail page is opened
BlockAlone(kind, block, location, date) ==
    IF kind = "stepstone" THEN stepstone_card(block, location, date)
    ELSE IF kind = "jobs_ch" THEN jobs_ch_card(block, date)
    ELSE process_email(block, date)

RECURSIVE EachAlone(_, _, _, _)
EachAlone(kind, blocks, location, date) ==
    IF blocks = <<>> THEN <<>>
    ELSE BlockAlone(kind, Head(blocks), location, date)
         \o EachAlone(kind, Tail(blocks), location, date)

UrlsOf(jobs) == [i \in 1..Len(jobs) |-> jobs[i].url]

\* the batch the loop has built
LoopBatch == IF loop_in.kind = "email" THEN mail_jobs ELSE web_jobs

\* C22: a failure while processing one block (one web card, or one email
\* message) does not abort the batch: every other block of the batch is
\* still processed, and the records already extracted from earlier blocks
\* remain in the batch.  The batch is, block for block, what each block
\* yields on its own, a failing block yielding nothing (for Jobs.ch, whose
\* records the detail pages then complete, the same postings in the same
\* order).
C22_FailureSkipsOneBlock ==
    loop_in.kind # "none" =>
        LET expected == EachAlone(loop_in.kind, SubSeq(loop_in.blocks, 1, loop_pos),
                                  loop_in.location, today)
        IN  /\ UrlsOf(LoopBatch) = UrlsOf(expected)
            /\ loop_in.kind # "jobs_ch" => LoopBatch = expected

\* a loop is over whose second block of three failed, and the batch holds
\* the records of the first and of the third
C22_Witness ==
    /\ Len(loop_in.blocks) = 3
    /\ loop_pos = 3
    /\ loop_in.blocks[2].raises
    /\ Len(LoopBatch) = 2
    /\ LoopBatch[1].url # LoopBatch[2].url

\* the records of the batch that carry the url
WithUrl(jobs, url) == SelectSeq(jobs, LAMBDA j : j.url = url)

\* one record of the link, its fields taken from the three lines above it
StackedRecord(jobs, lines, url) ==
    /\ Len(WithUrl(jobs, url)) = 1
    /\ WithUrl(jobs, url)[1].title = lines[1]
    /\ WithUrl(jobs, url)[1].company = lines[2]
    /\ WithUrl(jobs, url)[1].location = lines[3]

\* C25: for a plain-text email body containing a job-link marker line
\* preceded by three non-empty non-noise lines, extraction yields one record
\* whose location is the line nearest above the marker, whose company is the
\* next line above, and whose title is the one above that.
C25_PlainTextStack ==
    loop_in.kind = "email" =>
        \A i \in 1..loop_pos :
            Len(loop_in.blocks[i].plain) = 3
                => StackedRecord(mail_jobs, loop_in.blocks[i].plain,
                                 loop_in.blocks[i].marker)

\* ---------------------------------------------------------------------------
\* Schema of the store
\* ---------------------------------------------------------------------------

\* C23: after any save by either writer, whether it creates the store or
\* merges into it, the canonical store has exactly the columns date_scraped,
\* source, company, title, location, country, url, technologies in that order.
C23_CanonicalColumns == store.exists => header = Columns

\* ---------------------------------------------------------------------------
\* Two runs over one store
\* ---------------------------------------------------------------------------

\* both runs have written, and both had read the same file before
BothReadFirst ==
    /\ web_pc = "saved" /\ mail_pc = "saved"
    /\ web_read = mail_read

\* the records only this run brings: not in the file it read, not in the
\* batch of the other run
BroughtBy(writer, other) ==
    SeqToSet(Written(writer)) \ (Rows(web_read.file) \cup SeqToSet(Written(other)))

\* C21: two pipeline runs against the same canonical store are not safe
\* without serialization: when their read and write steps interleave (both
\* read the store before either writes), a reachable final store lacks
\* records that one of the two runs contributed (lost update).  Whenever
\* both read first, all that one of the two runs brought is missing from the
\* final store.
C21_LostUpdate ==
    BothReadFirst =>
        \/ BroughtBy("web", "mail") \cap Rows(store) = {}
        \/ BroughtBy("mail", "web") \cap Rows(store) = {}

\* both read first, both wrote, and the store lacks a record of the scraper
C21_Witness ==
    /\ BothReadFirst
    /\ BroughtBy("web", "mail") # {}
    /\ BroughtBy("mail", "web") # {}
    /\ BroughtBy("web", "mail") \cap Rows(store) = {}
    /\ BroughtBy("mail", "web") \subseteq Rows(store)

====
